---- MODULE Spec2Model ----
(***************************************************************************)
(* ggoled: the draw engine of ggoled_draw (run_draw_device_thread and the  *)
(* DrawDevice producer API) over the Device transport of ggoled_lib.       *)
(* Time is counted in whole seconds, the unit of every Duration the engine *)
(* compares against (Duration::from_secs).                                 *)
(***************************************************************************)
EXTENDS Integers, Sequences, FiniteSets, TLC

VARIABLES
    now,                  \* the monotonic clock behind Instant::now()
    pc,                   \* position of the render thread in its loop
    time,                 \* `time` of the current loop iteration
    stop_after_frame,
    prev_screen,
    screen,               \* the composite of the current iteration
    playing,
    oled_shift,
    last_shift,
    shift_mode,
    connected,
    last_connect_attempt,
    last_frame_time,
    layers,               \* Arc<Mutex<LayerMap>>: LayerId -> DrawLayerState
    lock,                 \* holder of the LayerMap mutex
    cmd_queue,            \* channel producer -> render thread
    event_queue,          \* channel render thread -> producer
    layer_counter,        \* DrawDevice.layer_counter
    thread,               \* DrawDevice.thread is Some(JoinHandle)
    ppc,                  \* position of the producer
    pending,              \* what is left of the producer's current call
    issued,               \* every LayerId returned so far
    last_play_sent,       \* history: TRUE iff the last of play()/pause() called is play()
    last_mode_sent,       \* history: the argument of the last set_shift_mode() call
    events,               \* the render thread's local `events`: what get_events() returned
    bmp,                  \* a Bitmap a caller of ggoled_lib owns
    call,                 \* the ggoled_lib call in progress or just made, with its arguments
    drawables,            \* Device::draw: the Vec prepare_for_report returned
    sent,                 \* the feature reports the OLED interface has received, in order
    lpc,                  \* position of the caller of ggoled_lib
    reports,              \* Device call in progress: the byte arrays handed to oled_dev
    error,                \* the message of the Err the last Device call returned, or ""
    ret,                  \* the value in the Ok the last Device call returned
    dev,                  \* the Device: oled_dev, info_dev, width, height
    opened,               \* connect() in progress: its open_device() calls, in order
    hid                   \* what the HID layer gives the Device call in progress

vars == <<now, pc, time, stop_after_frame, prev_screen, screen, playing,
          oled_shift, last_shift, shift_mode, connected, last_connect_attempt,
          last_frame_time, layers, lock, cmd_queue, event_queue, layer_counter,
          thread, ppc, pending, issued, last_play_sent, last_mode_sent, events,
          bmp, call, drawables, sent, lpc, reports, error, ret, dev, opened, hid>>

renderVars == <<pc, time, stop_after_frame, prev_screen, screen, playing,
                oled_shift, last_shift, shift_mode, connected,
                last_connect_attempt, last_frame_time>>

sentVars == <<last_play_sent, last_mode_sent>>

producerVars == <<layer_counter, thread, ppc, pending, issued, last_play_sent,
                  last_mode_sent>>

connVars == <<error, ret, dev, opened, hid>>

devVars == <<reports, connVars>>

libVars == <<bmp, call, drawables, sent, lpc, devVars>>

(* ------------------------------ bounds -------------------------------- *)

MaxTime == 2
MaxQueue == 2
MaxEvents == 2
MaxLayerId == 2
MaxRead == 1
MaxReports == 2
MaxIds == 2
MaxLines == 2
MaxTicks == 2
MaxShiftTicks == 2
MaxShiftCycle == 9
MaxBitmapW == 2
MaxBitmapH == 2
MaxOffset == 2
MaxOver == 2
ScreenW == 2
ScreenH == 2
MaxReads == 2
MaxFrames == 2
MaxInfos == 3

(* ------------------------- program constants -------------------------- *)

OLED_SHIFT_PERIOD == 90
RECONNECT_PERIOD == 1
FORCE_REDRAW_PERIOD == 1
MARGIN == 30
SCREEN_REPORT_SPLIT_SZ == 64
SCREEN_REPORT_SIZE == 1024
DeviceWidth == 128
DeviceHeight == 64
fps == 30

OLED_SHIFTS ==
    << <<0, 0>>, <<0, -1>>, <<1, -1>>, <<1, 0>>, <<1, 1>>,
       <<0, 1>>, <<-1, 1>>, <<-1, 0>>, <<-1, -1>> >>

\* Duration::from_nanos(1_000_000_000 / fps), in seconds
frame_delay == 1 \div fps

(* ------------------------------ Bitmap -------------------------------- *)

\* data is row-major; pixel (x, y) is data[x + y*w + 1]
NewBitmap(w, h, on) == [w |-> w, h |-> h, data |-> [i \in 1..(w * h) |-> on]]

\* mutant of Crop: the size is set, the bit array is left as it was
CropSizeOnly(self, x, y, w, h) == [self EXCEPT !.w = w, !.h = h]

\* Bitmap::crop past its two assertions: w * h pushes of self.data[x + y * self.w],
\* x and y being the loop variables of `for y in 0..h { for x in 0..w {`
Crop(self, x, y, w, h) ==
    [w |-> w, h |-> h,
     data |-> [i \in 1..(w * h) |->
                  LET lx == (i - 1) % w
                      ly == (i - 1) \div w
                  IN  self.data[lx + ly * self.w + 1]]]

\* the two assertions of Bitmap::crop
CropInBounds(self, x, y, w, h) ==
    /\ x <= self.w /\ y <= self.h
    /\ w <= self.w - x /\ h <= self.h - y

\* Bitmap::invert
Invert(self) == [self EXCEPT !.data = [i \in 1..Len(self.data) |-> ~self.data[i]]]

\* mutant of Blit: the older blit, which has no opaque flag and overwrites
BlitOverwrite(self, other, x, y, opaque) ==
    [self EXCEPT !.data =
        [i \in 1..(self.w * self.h) |->
            LET si == i - 1
                sx == si % self.w
                sy == si \div self.w
                ox == sx - x
                oy == sy - y
            IN  IF ox >= 0 /\ ox < other.w /\ oy >= 0 /\ oy < other.h
                THEN other.data[(ox + oy * other.w) + 1]
                ELSE self.data[si + 1]]]

\* Bitmap::blit
Blit(self, other, x, y, opaque) ==
    [self EXCEPT !.data =
        [i \in 1..(self.w * self.h) |->
            LET si == i - 1
                sx == si % self.w
                sy == si \div self.w
                ox == sx - x
                oy == sy - y
            IN  IF ox >= 0 /\ ox < other.w /\ oy >= 0 /\ oy < other.h
                THEN LET oi == ox + oy * other.w
                     IN  IF opaque THEN other.data[oi + 1]
                         ELSE self.data[si + 1] \/ other.data[oi + 1]
                ELSE self.data[si + 1]]]

(* --------------------------- layers, values ---------------------------- *)

LayerIdNone == 0

\* Option<T>
None == [some |-> FALSE, val |-> 0]
Some(v) == [some |-> TRUE, val |-> v]

Frame(bitmap, delay) == [bitmap |-> bitmap, delay |-> delay]

Image(bitmap, x, y) ==
    [kind |-> "Image", bitmap |-> bitmap, frames |-> <<>>, x |-> x, y |-> y,
     follow_fps |-> FALSE]
Animation(frames, x, y, follow_fps) ==
    [kind |-> "Animation", bitmap |-> NewBitmap(0, 0, FALSE), frames |-> frames,
     x |-> x, y |-> y, follow_fps |-> follow_fps]
Scroll(bitmap, y) ==
    [kind |-> "Scroll", bitmap |-> bitmap, frames |-> <<>>, x |-> 0, y |-> y,
     follow_fps |-> FALSE]

Cmd(tag, mode) == [tag |-> tag, mode |-> mode]
CmdPlay == Cmd("Play", "-")
CmdPause == Cmd("Pause", "-")
CmdSetShiftMode(mode) == Cmd("SetShiftMode", mode)
CmdStop == Cmd("Stop", "-")

ShiftModes == {"Off", "Simple"}

Event(tag, ev) == [tag |-> tag, ev |-> ev]
DeviceDisconnected == Event("DeviceDisconnected", "-")
DeviceReconnected == Event("DeviceReconnected", "-")
DeviceEventOf(ev) == Event("DeviceEvent", ev)

RECURSIVE SeqsUpTo(_, _)
SeqsUpTo(S, n) ==
    IF n = 0 THEN {<<>>}
    ELSE LET shorter == SeqsUpTo(S, n - 1)
         IN  shorter \cup {Append(s, e) : s \in shorter, e \in S}

SetMin(S) == CHOOSE m \in S : \A k \in S : m <= k

\* Rust's `/` on isize truncates toward zero
TruncDiv(a, b) == IF a >= 0 THEN a \div b ELSE -((-a) \div b)

(* --------------------------- compositing ------------------------------ *)

\* DrawLayerState as add_layer_locked builds it
DrawLayerState(layer, t) ==
    [layer |-> layer, anim |-> [ticks |-> 0, next_update |-> t], scroll |-> [x |-> 0]]

ScrollW(bitmap) == bitmap.w + MARGIN

RECURSIVE BlitScroll(_, _, _, _, _, _)
BlitScroll(scr, st, shift, width, i, dupes) ==
    IF i > dupes THEN scr
    ELSE BlitScroll(
            Blit(scr, st.layer.bitmap,
                 st.scroll.x + i * ScrollW(st.layer.bitmap) + shift[1],
                 st.layer.y + shift[2], FALSE),
            st, shift, width, i + 1, dupes)

\* mutant of BlitLayer: the layers are blitted opaque
BlitLayerOpaque(scr, st, shift, width) ==
    CASE st.layer.kind = "Image" ->
            Blit(scr, st.layer.bitmap, st.layer.x + shift[1], st.layer.y + shift[2], TRUE)
      [] st.layer.kind = "Animation" ->
            IF st.layer.frames # <<>>
            THEN LET frame == st.layer.frames[(st.anim.ticks % Len(st.layer.frames)) + 1]
                 IN  Blit(scr, frame.bitmap, st.layer.x + shift[1], st.layer.y + shift[2], TRUE)
            ELSE scr
      [] st.layer.kind = "Scroll" ->
            BlitScroll(scr, st, shift, width, 0, 1 + width \div ScrollW(st.layer.bitmap))

\* mutant of BlitLayer: a Scroll layer is drawn with one copy less
BlitLayerFewerDupes(scr, st, shift, width) ==
    CASE st.layer.kind = "Image" ->
            Blit(scr, st.layer.bitmap, st.layer.x + shift[1], st.layer.y + shift[2], FALSE)
      [] st.layer.kind = "Animation" ->
            IF st.layer.frames # <<>>
            THEN LET frame == st.layer.frames[(st.anim.ticks % Len(st.layer.frames)) + 1]
                 IN  Blit(scr, frame.bitmap, st.layer.x + shift[1], st.layer.y + shift[2], FALSE)
            ELSE scr
      [] st.layer.kind = "Scroll" ->
            BlitScroll(scr, st, shift, width, 0, width \div ScrollW(st.layer.bitmap))

\* the blit of one layer (one arm of the match on state.layer)
BlitLayer(scr, st, shift, width) ==
    CASE st.layer.kind = "Image" ->
            Blit(scr, st.layer.bitmap, st.layer.x + shift[1], st.layer.y + shift[2], FALSE)
      [] st.layer.kind = "Animation" ->
            IF st.layer.frames # <<>>
            THEN LET frame == st.layer.frames[(st.anim.ticks % Len(st.layer.frames)) + 1]
                 IN  Blit(scr, frame.bitmap, st.layer.x + shift[1], st.layer.y + shift[2], FALSE)
            ELSE scr
      [] st.layer.kind = "Scroll" ->
            BlitScroll(scr, st, shift, width, 0, 1 + width \div ScrollW(st.layer.bitmap))

\* mutant of UpdateLayer: an Animation that does not follow the fps advances
\* in every pass, whatever the time
UpdateLayerEveryTick(st, t) ==
    CASE st.layer.kind = "Image" -> st
      [] st.layer.kind = "Animation" ->
            IF st.layer.frames = <<>> THEN st
            ELSE LET frame == st.layer.frames[(st.anim.ticks % Len(st.layer.frames)) + 1]
                 IN  [st EXCEPT !.anim.ticks = @ + 1,
                                !.anim.next_update =
                                    IF ~st.layer.follow_fps /\ frame.delay.some
                                    THEN @ + frame.delay.val ELSE @]
      [] st.layer.kind = "Scroll" ->
            LET x1 == st.scroll.x - 1
            IN  [st EXCEPT !.scroll.x =
                    IF x1 <= -ScrollW(st.layer.bitmap) THEN x1 + ScrollW(st.layer.bitmap) ELSE x1]

\* mutant of UpdateLayer: a Scroll layer wraps one tick late
UpdateLayerLateWrap(st, t) ==
    CASE st.layer.kind = "Image" -> st
      [] st.layer.kind = "Animation" ->
            IF st.layer.frames = <<>> THEN st
            ELSE LET frame == st.layer.frames[(st.anim.ticks % Len(st.layer.frames)) + 1]
                 IN  IF st.layer.follow_fps
                     THEN [st EXCEPT !.anim.ticks = @ + 1]
                     ELSE IF t >= st.anim.next_update
                          THEN [st EXCEPT !.anim.ticks = @ + 1,
                                          !.anim.next_update =
                                              IF frame.delay.some THEN @ + frame.delay.val ELSE @]
                          ELSE st
      [] st.layer.kind = "Scroll" ->
            LET x1 == st.scroll.x - 1
            IN  [st EXCEPT !.scroll.x =
                    IF x1 < -ScrollW(st.layer.bitmap) THEN x1 + ScrollW(st.layer.bitmap) ELSE x1]

\* the render state a layer is left with by one pass
UpdateLayer(st, t) ==
    CASE st.layer.kind = "Image" -> st
      [] st.layer.kind = "Animation" ->
            IF st.layer.frames = <<>> THEN st
            ELSE LET frame == st.layer.frames[(st.anim.ticks % Len(st.layer.frames)) + 1]
                 IN  IF st.layer.follow_fps
                     THEN [st EXCEPT !.anim.ticks = @ + 1]
                     ELSE IF t >= st.anim.next_update
                          THEN [st EXCEPT !.anim.ticks = @ + 1,
                                          !.anim.next_update =
                                              IF frame.delay.some THEN @ + frame.delay.val ELSE @]
                          ELSE st
      [] st.layer.kind = "Scroll" ->
            LET x1 == st.scroll.x - 1
            IN  [st EXCEPT !.scroll.x =
                    IF x1 <= -ScrollW(st.layer.bitmap) THEN x1 + ScrollW(st.layer.bitmap) ELSE x1]

\* `for (_, state) in layers.iter_mut()`: BTreeMap order, ascending LayerId
RECURSIVE BlitLayers(_, _, _, _, _)
BlitLayers(scr, ls, ids, shift, width) ==
    IF ids = {} THEN scr
    ELSE LET id == SetMin(ids)
         IN  BlitLayers(BlitLayer(scr, ls[id], shift, width), ls, ids \ {id}, shift, width)

Composite(ls, shift, width, height) ==
    BlitLayers(NewBitmap(width, height, FALSE), ls, DOMAIN ls, shift, width)

UpdateLayers(ls, t) == [id \in DOMAIN ls |-> UpdateLayer(ls[id], t)]

(* ------------------------------- Init --------------------------------- *)

EmptyLayers == [id \in {} |-> 0]

\* a call on ggoled_lib: the operation, the Bitmap it is made on and its
\* arguments (those the operation does not take are left at 0)
Call(op, self, other, x, y, w, h, flag) ==
    [op |-> op, self |-> self, other |-> other, x |-> x, y |-> y, w |-> w, h |-> h,
     flag |-> flag]

NoBitmap == NewBitmap(0, 0, FALSE)

\* no call on ggoled_lib has been made
NoCall == Call("none", NoBitmap, NoBitmap, 0, 0, 0, 0, FALSE)

\* a HidDevice open_device() returned: the path it was opened on and the
\* descriptor the system gave it, the lowest one not in use
Handle(path, fd) == [path |-> path, fd |-> fd]

\* what the HID layer gives a call: the entries device_list() enumerates,
\* the step of connect() that fails, what info_dev.read() returns in turn
Hid(infos, fail, reads) == [infos |-> infos, fail |-> fail, reads |-> reads]

NoHid == Hid(<<>>, "none", <<>>)

Unit == "()"

\* Ok(Device { oled_dev, info_dev, width: 128, height: 64 })
DeviceOf(oled_dev, info_dev) ==
    [oled_dev |-> oled_dev, info_dev |-> info_dev, width |-> DeviceWidth,
     height |-> DeviceHeight]

\* the Device the engine is built on, its screen scaled down to ScreenW x
\* ScreenH
SmallDevice ==
    [DeviceOf(Handle("hid0", 1), Handle("hid1", 2)) EXCEPT !.width = ScreenW,
                                                           !.height = ScreenH]

\* no call on ggoled_lib has been made; the Device is `device`
LibIdleOn(device) ==
    /\ bmp = NewBitmap(0, 0, FALSE)
    /\ call = NoCall
    /\ drawables = <<>>
    /\ sent = <<>>
    /\ lpc = "idle"
    /\ reports = <<>>
    /\ error = ""
    /\ ret = Unit
    /\ opened = <<>>
    /\ hid = NoHid
    /\ dev = device

LibIdle == LibIdleOn(SmallDevice)

Init ==
    /\ now = 0
    /\ pc = "loop"
    /\ time = 0
    /\ stop_after_frame = FALSE
    /\ prev_screen = NewBitmap(0, 0, FALSE)
    /\ screen = NewBitmap(0, 0, FALSE)
    /\ playing = FALSE
    /\ oled_shift = 0
    /\ last_shift = 0
    /\ shift_mode = "Off"
    /\ connected = TRUE
    /\ last_connect_attempt = 0
    /\ last_frame_time = 0
    /\ layers = EmptyLayers
    /\ lock = "free"
    /\ cmd_queue = <<>>
    /\ event_queue = <<>>
    /\ layer_counter = 0
    /\ thread = TRUE
    /\ ppc = "idle"
    /\ pending = <<>>
    /\ issued = {}
    /\ last_play_sent = FALSE
    /\ last_mode_sent = "Off"
    /\ events = <<>>
    /\ LibIdle

(* ------------------------------ clock --------------------------------- *)

Tick(step, limit) ==
    /\ now + step <= limit
    /\ now' = now + step
    /\ UNCHANGED <<renderVars, layers, lock, cmd_queue, event_queue, producerVars>>
    /\ UNCHANGED <<events, libVars>>

(* --------------------------- render thread ---------------------------- *)

\* event_sender.send(..) for each event of evs
Send(evs) ==
    /\ Len(event_queue) + Len(evs) <= MaxEvents
    /\ event_queue' = event_queue \o evs

\* loop { let time = Instant::now(); let mut stop_after_frame = false;
LoopTop ==
    /\ pc = "loop"
    /\ time' = now
    /\ stop_after_frame' = FALSE
    /\ pc' = "drain"
    /\ UNCHANGED <<now, prev_screen, screen, playing, oled_shift, last_shift, shift_mode,
                   connected, last_connect_attempt, last_frame_time, layers, lock,
                   cmd_queue, event_queue, producerVars>>
    /\ UNCHANGED <<events, libVars>>

\* mutant of TryRecv: `if let` for `while let`, one command per iteration
TryRecvOnce ==
    /\ pc = "drain"
    /\ cmd_queue # <<>>
    /\ LET cmd == Head(cmd_queue)
       IN  /\ playing' = CASE cmd.tag = "Play" -> TRUE
                           [] cmd.tag = "Pause" -> FALSE
                           [] OTHER -> playing
           /\ shift_mode' = IF cmd.tag = "SetShiftMode" THEN cmd.mode ELSE shift_mode
           /\ stop_after_frame' = IF cmd.tag = "Stop" THEN TRUE ELSE stop_after_frame
    /\ cmd_queue' = Tail(cmd_queue)
    /\ pc' = "reconnect"
    /\ UNCHANGED <<now, time, prev_screen, screen, oled_shift, last_shift, connected,
                   last_connect_attempt, last_frame_time, layers, lock, event_queue,
                   producerVars>>
    /\ UNCHANGED <<events, libVars>>

\* while let Ok(cmd) = cmd_receiver.try_recv() { match cmd { .. } }
TryRecv ==
    /\ pc = "drain"
    /\ cmd_queue # <<>>
    /\ LET cmd == Head(cmd_queue)
       IN  /\ playing' = CASE cmd.tag = "Play" -> TRUE
                           [] cmd.tag = "Pause" -> FALSE
                           [] OTHER -> playing
           /\ shift_mode' = IF cmd.tag = "SetShiftMode" THEN cmd.mode ELSE shift_mode
           /\ stop_after_frame' = IF cmd.tag = "Stop" THEN TRUE ELSE stop_after_frame
    /\ cmd_queue' = Tail(cmd_queue)
    /\ UNCHANGED <<now, pc, time, prev_screen, screen, oled_shift, last_shift, connected,
                   last_connect_attempt, last_frame_time, layers, lock, event_queue,
                   producerVars>>
    /\ UNCHANGED <<events, libVars>>

\* try_recv() returns Err: the channel is empty
TryRecvEmpty ==
    /\ pc = "drain"
    /\ cmd_queue = <<>>
    /\ pc' = "reconnect"
    /\ UNCHANGED <<now, time, stop_after_frame, prev_screen, screen, playing, oled_shift,
                   last_shift, shift_mode, connected, last_connect_attempt,
                   last_frame_time, layers, lock, cmd_queue, event_queue, producerVars>>
    /\ UNCHANGED <<events, libVars>>

\* mutant of ReconnectDue: the retry period is not looked at
ReconnectDueEveryTick == ~connected

ReconnectDue == ~connected /\ time - last_connect_attempt >= RECONNECT_PERIOD

\* if !connected && time.duration_since(last_connect_attempt) >= RECONNECT_PERIOD
ReconnectCheck ==
    /\ pc = "reconnect"
    /\ IF ReconnectDue
       THEN /\ last_connect_attempt' = time
            /\ pc' = "reconnecting"
       ELSE /\ pc' = "render"
            /\ UNCHANGED last_connect_attempt
    /\ UNCHANGED <<now, time, stop_after_frame, prev_screen, screen, playing, oled_shift,
                   last_shift, shift_mode, connected, last_frame_time, layers, lock,
                   cmd_queue, event_queue, producerVars>>
    /\ UNCHANGED <<events, libVars>>

\* mutant of Reconnect: the result of reconnect() decides the event only
ReconnectIgnoringResult(ok) ==
    /\ pc = "reconnecting"
    /\ connected' = TRUE
    /\ IF ok THEN Send(<<DeviceReconnected>>) ELSE UNCHANGED event_queue
    /\ pc' = "render"
    /\ UNCHANGED <<now, time, stop_after_frame, prev_screen, screen, playing, oled_shift,
                   last_shift, shift_mode, last_connect_attempt, last_frame_time, layers,
                   lock, cmd_queue, producerVars>>
    /\ UNCHANGED <<events, libVars>>

\* if dev.reconnect().is_ok() { connected = true; event_sender.send(..) }
ReconnectReturns(ok) ==
    /\ pc = "reconnecting"
    /\ IF ok
       THEN /\ connected' = TRUE
            /\ Send(<<DeviceReconnected>>)
       ELSE UNCHANGED <<connected, event_queue>>
    /\ pc' = "render"
    /\ UNCHANGED <<now, time, stop_after_frame, prev_screen, screen, playing, oled_shift,
                   last_shift, shift_mode, last_connect_attempt, last_frame_time, layers,
                   lock, cmd_queue, producerVars>>
    /\ UNCHANGED events

\* dev.reconnect() returns, seen from the engine
Reconnect(ok) ==
    /\ ReconnectReturns(ok)
    /\ UNCHANGED libVars

\* mutant of ShiftDue: the shift advances in every rendered tick
ShiftDueEveryTick == TRUE

ShiftDue == time - last_shift >= OLED_SHIFT_PERIOD

\* mutant of ShouldRender: no frame in the iteration that drained Stop
ShouldRenderUnlessStopping == connected /\ playing /\ ~stop_after_frame

\* mutant of ShouldRender: the play state is not looked at
ShouldRenderWhilePaused == connected

\* if connected && playing
ShouldRender == connected /\ playing

\* mutant of ForceRedraw: no heartbeat, only a changed frame is written
ForceRedrawNever(frame_time) == FALSE

\* mutant of ForceRedraw: the heartbeat comes only after more than a second
ForceRedrawLate(frame_time) == frame_time - last_frame_time > FORCE_REDRAW_PERIOD

\* let force_redraw = frame_time.duration_since(last_frame_time) >= Duration::from_secs(1)
ForceRedraw(frame_time) == frame_time - last_frame_time >= FORCE_REDRAW_PERIOD

\* the Render frame block: shift, lock, composite, frame_time, compare
RenderFrame ==
    /\ pc = "render"
    /\ IF ShouldRender
       THEN /\ \A id \in DOMAIN layers : layers[id].anim.ticks < MaxTicks
            /\ oled_shift' = IF shift_mode = "Simple" /\ ShiftDue
                             THEN (oled_shift + 1) % Len(OLED_SHIFTS) ELSE oled_shift
            /\ last_shift' = IF shift_mode = "Simple" /\ ShiftDue THEN time ELSE last_shift
            /\ lock = "free"
            /\ lock' = "render"
            /\ LET shift == IF shift_mode = "Off" THEN <<0, 0>>
                            ELSE OLED_SHIFTS[oled_shift' + 1]
                   frame_time == now
                   force_redraw == ForceRedraw(frame_time)
               IN  /\ screen' = Composite(layers, shift, dev.width, dev.height)
                   /\ layers' = UpdateLayers(layers, time)
                   /\ IF screen' # prev_screen \/ force_redraw
                      THEN /\ last_frame_time' = frame_time
                           /\ pc' = "draw"
                      ELSE /\ pc' = "drop"
                           /\ UNCHANGED last_frame_time
       ELSE /\ pc' = "events"
            /\ UNCHANGED <<oled_shift, last_shift, lock, screen, layers, last_frame_time>>
    /\ UNCHANGED <<now, time, stop_after_frame, prev_screen, playing, shift_mode, connected,
                   last_connect_attempt, cmd_queue, event_queue, producerVars>>
    /\ UNCHANGED <<events, libVars>>

\* mutant of DeviceDrawReturns: the composite is remembered whether or not
\* it was written
DeviceDrawRemembers(ok) ==
    /\ pc = "draw"
    /\ prev_screen' = screen
    /\ IF ~ok /\ connected
       THEN /\ connected' = FALSE
            /\ Send(<<DeviceDisconnected>>)
       ELSE UNCHANGED <<connected, event_queue>>
    /\ pc' = "drop"
    /\ UNCHANGED <<now, time, stop_after_frame, screen, playing, oled_shift, last_shift,
                   shift_mode, last_connect_attempt, last_frame_time, layers, lock,
                   cmd_queue, producerVars>>
    /\ UNCHANGED events

\* if let Err(_err) = dev.draw(&screen, 0, 0) { .. } else { prev_screen = screen; }
DeviceDrawReturns(ok) ==
    /\ pc = "draw"
    /\ IF ok
       THEN /\ prev_screen' = screen
            /\ UNCHANGED <<connected, event_queue>>
       ELSE /\ IF connected
               THEN /\ connected' = FALSE
                    /\ Send(<<DeviceDisconnected>>)
               ELSE UNCHANGED <<connected, event_queue>>
            /\ UNCHANGED prev_screen
    /\ pc' = "drop"
    /\ UNCHANGED <<now, time, stop_after_frame, screen, playing, oled_shift, last_shift,
                   shift_mode, last_connect_attempt, last_frame_time, layers, lock,
                   cmd_queue, producerVars>>
    /\ UNCHANGED events

\* dev.draw(&screen, 0, 0) returns, seen from the engine
DeviceDraw(ok) ==
    /\ DeviceDrawReturns(ok)
    /\ UNCHANGED libVars

\* drop(layers)
DropLayers ==
    /\ pc = "drop"
    /\ lock' = "free"
    /\ pc' = "events"
    /\ UNCHANGED <<now, time, stop_after_frame, prev_screen, screen, playing, oled_shift,
                   last_shift, shift_mode, connected, last_connect_attempt,
                   last_frame_time, layers, cmd_queue, event_queue, producerVars>>
    /\ UNCHANGED <<events, libVars>>

\* mutant of ShouldPoll: the device is polled whatever the connection state
ShouldPollAlways == TRUE

\* mutant of ShouldPoll: the device is polled only while playing
ShouldPollWhilePlaying == connected /\ playing

\* if connected
ShouldPoll == connected

\* if connected { dev.get_events() is called }
EventsCheck ==
    /\ pc = "events"
    /\ pc' = IF ShouldPoll THEN "polling" ELSE "stop"
    /\ UNCHANGED <<now, time, stop_after_frame, prev_screen, screen, playing, oled_shift,
                   last_shift, shift_mode, connected, last_connect_attempt,
                   last_frame_time, layers, lock, cmd_queue, event_queue, producerVars>>
    /\ UNCHANGED <<events, libVars>>

\* mutant of GetEvents: the result is unwrapped, an error ends the thread
GetEventsUnwrap(ok, evs) ==
    /\ pc = "polling"
    /\ events' = IF ok THEN evs ELSE <<>>
    /\ IF ok
       THEN /\ Send([i \in 1..Len(evs) |-> DeviceEventOf(evs[i])])
            /\ pc' = "stop"
       ELSE /\ pc' = "exited"
            /\ UNCHANGED event_queue
    /\ UNCHANGED <<now, time, stop_after_frame, prev_screen, screen, playing, oled_shift,
                   last_shift, shift_mode, connected, last_connect_attempt,
                   last_frame_time, layers, lock, cmd_queue, producerVars>>
    /\ UNCHANGED libVars

\* mutant of GetEvents: the events of one read are published newest first
GetEventsNewestFirst(ok, evs) ==
    /\ pc = "polling"
    /\ events' = IF ok THEN evs ELSE <<>>
    /\ IF ok
       THEN /\ Send([i \in 1..Len(evs) |-> DeviceEventOf(evs[Len(evs) + 1 - i])])
            /\ UNCHANGED connected
       ELSE /\ connected' = FALSE
            /\ Send(<<DeviceDisconnected>>)
    /\ pc' = "stop"
    /\ UNCHANGED <<now, time, stop_after_frame, prev_screen, screen, playing, oled_shift,
                   last_shift, shift_mode, last_connect_attempt, last_frame_time, layers,
                   lock, cmd_queue, producerVars>>
    /\ UNCHANGED libVars

\* let events = dev.get_events().unwrap_or_else(|_| { .. vec![] });
\* for event in events { event_sender.send(DrawEvent::DeviceEvent(event)) }
GetEventsReturns(ok, evs) ==
    /\ pc = "polling"
    /\ events' = IF ok THEN evs ELSE <<>>
    /\ IF ok
       THEN /\ Send([i \in 1..Len(evs) |-> DeviceEventOf(evs[i])])
            /\ UNCHANGED connected
       ELSE /\ connected' = FALSE
            /\ Send(<<DeviceDisconnected>>)
    /\ pc' = "stop"
    /\ UNCHANGED <<now, time, stop_after_frame, prev_screen, screen, playing, oled_shift,
                   last_shift, shift_mode, last_connect_attempt, last_frame_time, layers,
                   lock, cmd_queue, producerVars>>

\* dev.get_events() returns Ok(evs) or Err, seen from the engine
GetEvents(ok, evs) ==
    /\ GetEventsReturns(ok, evs)
    /\ UNCHANGED libVars

\* if stop_after_frame { break; }
\* spin_sleep::sleep(frame_delay.saturating_sub(frame_duration)), and the loop goes round
StopCheck ==
    /\ pc = "stop"
    /\ events' = <<>>
    /\ IF stop_after_frame
       THEN pc' = "exited"
       ELSE /\ now - time >= frame_delay
            /\ pc' = "loop"
    /\ UNCHANGED <<now, time, stop_after_frame, prev_screen, screen, playing, oled_shift,
                   last_shift, shift_mode, connected, last_connect_attempt,
                   last_frame_time, layers, lock, cmd_queue, event_queue, producerVars>>
    /\ UNCHANGED libVars

(* ----------------------------- producer ------------------------------- *)

\* the DrawDevice is alive and its owner is between two calls
Idle == ppc = "idle"

\* self.cmd_sender.send(cmd)
SendCmd(cmd) ==
    /\ Len(cmd_queue) < MaxQueue
    /\ cmd_queue' = Append(cmd_queue, cmd)

Play ==
    /\ Idle
    /\ SendCmd(CmdPlay)
    /\ last_play_sent' = TRUE
    /\ UNCHANGED <<now, renderVars, layers, lock, event_queue, layer_counter, thread, ppc,
                   pending, issued, last_mode_sent>>
    /\ UNCHANGED <<events, libVars>>

Pause ==
    /\ Idle
    /\ SendCmd(CmdPause)
    /\ last_play_sent' = FALSE
    /\ UNCHANGED <<now, renderVars, layers, lock, event_queue, layer_counter, thread, ppc,
                   pending, issued, last_mode_sent>>
    /\ UNCHANGED <<events, libVars>>

SetShiftMode(mode) ==
    /\ Idle
    /\ SendCmd(CmdSetShiftMode(mode))
    /\ last_mode_sent' = mode
    /\ UNCHANGED <<now, renderVars, layers, lock, event_queue, layer_counter, thread, ppc,
                   pending, issued, last_play_sent>>
    /\ UNCHANGED <<events, libVars>>

\* mutant of NextLayerId: the id is taken from the size of the store
NextLayerIdFromLen == Cardinality(DOMAIN layers) + 1

\* the LayerId add_layer_locked hands out next
NextLayerId == layer_counter + 1

\* mutant of AddLayerLocked: the states of the layers in the store are made
\* anew with the one of the layer added
AddLayerLockedResetting(ls, layer) ==
    (NextLayerId :> DrawLayerState(layer, now))
        @@ [id \in DOMAIN ls |-> DrawLayerState(ls[id].layer, now)]

\* add_layer_locked, on the map ls held under the lock
AddLayerLocked(ls, layer) ==
    (NextLayerId :> DrawLayerState(layer, now)) @@ ls

\* add_layer: lock, add_layer_locked, unlock
AddLayer(layer) ==
    /\ Idle
    /\ lock = "free"
    /\ layer_counter < MaxLayerId
    /\ layer_counter' = NextLayerId
    /\ layers' = AddLayerLocked(layers, layer)
    /\ issued' = issued \cup {NextLayerId}
    /\ UNCHANGED <<now, renderVars, lock, cmd_queue, event_queue, thread, ppc, pending, sentVars>>
    /\ UNCHANGED <<events, libVars>>

\* mutant of RemoveKey: an id that is not in the map takes the newest entry
\* with it
RemoveKeyOrNewest(ls, id) ==
    LET gone == IF id \in DOMAIN ls
                THEN {id}
                ELSE {k \in DOMAIN ls : \A j \in DOMAIN ls : j <= k}
    IN  [k \in DOMAIN ls \ gone |-> ls[k]]

RemoveKey(ls, id) == [k \in DOMAIN ls \ {id} |-> ls[k]]

\* the LayerIds a caller can hold: the ones returned to it, and LayerId::none()
HeldIds == issued \cup {LayerIdNone}

RemoveLayer(id) ==
    /\ Idle
    /\ lock = "free"
    /\ layers' = RemoveKey(layers, id)
    /\ UNCHANGED <<now, renderVars, lock, cmd_queue, event_queue, producerVars>>
    /\ UNCHANGED <<events, libVars>>

ClearLayers ==
    /\ Idle
    /\ lock = "free"
    /\ layers' = EmptyLayers
    /\ UNCHANGED <<now, renderVars, lock, cmd_queue, event_queue, producerVars>>
    /\ UNCHANGED <<events, libVars>>

\* remove_layers: let mut layers = self.layers.lock().unwrap();
RemoveLayersLock(ids) ==
    /\ Idle
    /\ lock = "free"
    /\ lock' = "producer"
    /\ ppc' = "remove_layers"
    /\ pending' = ids
    /\ UNCHANGED <<now, renderVars, layers, cmd_queue, event_queue, layer_counter, thread,
                   issued, sentVars>>
    /\ UNCHANGED <<events, libVars>>

\* for id in ids { layers.remove(id); }
RemoveLayersStep ==
    /\ ppc = "remove_layers"
    /\ pending # <<>>
    /\ layers' = RemoveKey(layers, Head(pending))
    /\ pending' = Tail(pending)
    /\ UNCHANGED <<now, renderVars, lock, cmd_queue, event_queue, layer_counter, thread,
                   ppc, issued, sentVars>>
    /\ UNCHANGED <<events, libVars>>

\* the guard is dropped at the end of remove_layers
RemoveLayersUnlock ==
    /\ ppc = "remove_layers"
    /\ pending = <<>>
    /\ lock' = "free"
    /\ ppc' = "idle"
    /\ UNCHANGED <<now, renderVars, layers, cmd_queue, event_queue, layer_counter, thread,
                   pending, issued, sentVars>>
    /\ UNCHANGED <<events, libVars>>

\* the store after remove_layers(ids)
RECURSIVE RemoveAll(_, _)
RemoveAll(ls, ids) ==
    IF ids = <<>> THEN ls ELSE RemoveAll(RemoveKey(ls, Head(ids)), Tail(ids))

\* mutant of ReplaceRemove: a batched replace, the guard of remove_layers is
\* kept until the layer has been added
ReplaceRemoveLocked(ids, layer) ==
    /\ Idle
    /\ lock = "free"
    /\ layer_counter < MaxLayerId
    /\ lock' = "producer"
    /\ layers' = RemoveAll(layers, ids)
    /\ ppc' = "replace"
    /\ pending' = <<layer>>
    /\ UNCHANGED <<now, renderVars, cmd_queue, event_queue, layer_counter, thread,
                   issued, sentVars>>
    /\ UNCHANGED <<events, libVars>>

\* a caller replaces layers with two calls: remove_layers(ids) has returned
\* (lock, remove each id, unlock) and add_layer(layer) is still to be called
ReplaceRemove(ids, layer) ==
    /\ Idle
    /\ lock = "free"
    /\ layer_counter < MaxLayerId
    /\ layers' = RemoveAll(layers, ids)
    /\ ppc' = "replace"
    /\ pending' = <<layer>>
    /\ UNCHANGED <<now, renderVars, lock, cmd_queue, event_queue, layer_counter, thread,
                   issued, sentVars>>
    /\ UNCHANGED <<events, libVars>>

\* the add_layer call that follows
ReplaceAdd ==
    /\ ppc = "replace"
    /\ lock = "free"
    /\ layer_counter' = NextLayerId
    /\ layers' = AddLayerLocked(layers, Head(pending))
    /\ issued' = issued \cup {NextLayerId}
    /\ pending' = <<>>
    /\ ppc' = "idle"
    /\ UNCHANGED <<now, renderVars, lock, cmd_queue, event_queue, thread, sentVars>>
    /\ UNCHANGED <<events, libVars>>

\* the tray's update of its layers: dev.pause(), then the remove_layers and
\* add calls, then dev.play()
UpdatePause ==
    /\ Idle
    /\ SendCmd(CmdPause)
    /\ last_play_sent' = FALSE
    /\ ppc' = "update_remove"
    /\ UNCHANGED <<now, renderVars, layers, lock, event_queue, layer_counter, thread,
                   pending, issued, last_mode_sent>>
    /\ UNCHANGED <<events, libVars>>

\* dev.remove_layers(&time_layers) has returned (lock, remove each id,
\* unlock); time_layers, the ids the last update added, is `pending`
UpdateRemove ==
    /\ ppc = "update_remove"
    /\ lock = "free"
    /\ layers' = RemoveAll(layers, pending)
    /\ ppc' = "update_add"
    /\ UNCHANGED <<now, renderVars, lock, cmd_queue, event_queue, layer_counter, thread,
                   pending, issued, sentVars>>
    /\ UNCHANGED <<events, libVars>>

\* time_layers = <the id of the layer the update adds>
UpdateAdd(layer) ==
    /\ ppc = "update_add"
    /\ lock = "free"
    /\ layer_counter < MaxLayerId
    /\ layer_counter' = NextLayerId
    /\ layers' = AddLayerLocked(layers, layer)
    /\ issued' = issued \cup {NextLayerId}
    /\ pending' = <<NextLayerId>>
    /\ ppc' = "update_play"
    /\ UNCHANGED <<now, renderVars, lock, cmd_queue, event_queue, thread, sentVars>>
    /\ UNCHANGED <<events, libVars>>

\* dev.play() at the end of the update
UpdatePlay ==
    /\ ppc = "update_play"
    /\ SendCmd(CmdPlay)
    /\ last_play_sent' = TRUE
    /\ ppc' = "idle"
    /\ UNCHANGED <<now, renderVars, layers, lock, event_queue, layer_counter, thread,
                   pending, issued, last_mode_sent>>
    /\ UNCHANGED <<events, libVars>>

\* center_bitmap
CenterBitmap(bitmap, width, height) ==
    <<TruncDiv(width - bitmap.w, 2), TruncDiv(height - bitmap.h, 2)>>

\* the layer add_text makes of line i (from 0) of its n rendered lines;
\* x and y are Options: [some, val]
TextLayer(bitmap, i, n, x, y, line_height, width, height) ==
    LET center_y == TruncDiv(height - line_height * n, 2)
        ly == (IF y.some THEN y.val ELSE center_y) + i * line_height
    IN  IF bitmap.w >= width
        THEN Scroll(bitmap, ly)
        ELSE Image(bitmap,
                   IF x.some THEN x.val ELSE CenterBitmap(bitmap, width, height)[1],
                   ly)

\* mutant of AddTextLock: each line is added by add_layer, which locks for
\* itself; no lock is held across the lines
AddTextPerLine(bitmaps, x, y, line_height) ==
    /\ Idle
    /\ lock = "free"
    /\ layer_counter + Len(bitmaps) <= MaxLayerId
    /\ ppc' = "add_text"
    /\ pending' = [i \in 1..Len(bitmaps) |->
                      TextLayer(bitmaps[i], i - 1, Len(bitmaps), x, y, line_height,
                                ScreenW, ScreenH)]
    /\ UNCHANGED <<now, renderVars, layers, lock, cmd_queue, event_queue, layer_counter,
                   thread, issued, sentVars>>
    /\ UNCHANGED <<events, libVars>>

\* add_text: lock, then render_lines(text) gives `bitmaps`
AddTextLock(bitmaps, x, y, line_height) ==
    /\ Idle
    /\ lock = "free"
    /\ layer_counter + Len(bitmaps) <= MaxLayerId
    /\ lock' = "producer"
    /\ ppc' = "add_text"
    /\ pending' = [i \in 1..Len(bitmaps) |->
                      TextLayer(bitmaps[i], i - 1, Len(bitmaps), x, y, line_height,
                                ScreenW, ScreenH)]
    /\ UNCHANGED <<now, renderVars, layers, cmd_queue, event_queue, layer_counter, thread,
                   issued, sentVars>>
    /\ UNCHANGED <<events, libVars>>

\* one line of add_text: add_layer_locked under the held lock
AddTextStep ==
    /\ ppc = "add_text"
    /\ pending # <<>>
    /\ layer_counter' = NextLayerId
    /\ layers' = AddLayerLocked(layers, Head(pending))
    /\ issued' = issued \cup {NextLayerId}
    /\ pending' = Tail(pending)
    /\ UNCHANGED <<now, renderVars, lock, cmd_queue, event_queue, thread, ppc, sentVars>>
    /\ UNCHANGED <<events, libVars>>

\* add_text returns the ids; the guard is dropped
AddTextUnlock ==
    /\ ppc = "add_text"
    /\ pending = <<>>
    /\ lock' = "free"
    /\ ppc' = "idle"
    /\ UNCHANGED <<now, renderVars, layers, cmd_queue, event_queue, layer_counter, thread,
                   pending, issued, sentVars>>
    /\ UNCHANGED <<events, libVars>>

\* try_event / poll_event returning an event
TryEvent ==
    /\ Idle
    /\ event_queue # <<>>
    /\ event_queue' = Tail(event_queue)
    /\ UNCHANGED <<now, renderVars, layers, lock, cmd_queue, producerVars>>
    /\ UNCHANGED <<events, libVars>>

\* mutant of DestroySend: the handle is looked at and left in place
\* (as_ref for take)
DestroySendKeepsHandle ==
    /\ thread
    /\ thread' = thread
    /\ SendCmd(CmdStop)

\* destroy with self.thread = Some: take the handle, send Stop, then join
DestroySend ==
    /\ thread
    /\ thread' = FALSE
    /\ SendCmd(CmdStop)

\* stop(mut self)
Stop ==
    /\ Idle
    /\ DestroySend
    /\ ppc' = "stop_join"
    /\ UNCHANGED <<now, renderVars, layers, lock, event_queue, layer_counter, pending,
                   issued, sentVars>>
    /\ UNCHANGED <<events, libVars>>

\* the DrawDevice goes out of scope: Drop::drop calls destroy
Drop ==
    /\ Idle
    /\ DestroySend
    /\ ppc' = "drop_join"
    /\ UNCHANGED <<now, renderVars, layers, lock, event_queue, layer_counter, pending,
                   issued, sentVars>>
    /\ UNCHANGED <<events, libVars>>

\* mutant of Joined: the handle is dropped without joining
JoinedWithoutWaiting == TRUE

\* thread.join() returns once the render thread has returned its Device
Joined == pc = "exited"

Join ==
    /\ ppc \in {"stop_join", "drop_join"}
    /\ Joined
    /\ ppc' = IF ppc = "stop_join" THEN "stop_drop" ELSE "dropped"
    /\ UNCHANGED <<now, renderVars, layers, lock, cmd_queue, event_queue, layer_counter,
                   thread, pending, issued, sentVars>>
    /\ UNCHANGED <<events, libVars>>

\* at the end of stop() self is dropped: destroy finds self.thread = None;
\* stop() then returns the Device
DropAfterStop ==
    /\ ppc = "stop_drop"
    /\ IF thread
       THEN /\ DestroySend
            /\ ppc' = "drop_join"
       ELSE /\ ppc' = "stopped"
            /\ UNCHANGED <<thread, cmd_queue>>
    /\ UNCHANGED <<now, renderVars, layers, lock, event_queue, layer_counter, pending,
                   issued, sentVars>>
    /\ UNCHANGED <<events, libVars>>

(* ------------------------ callers of ggoled_lib ------------------------ *)

engineVars == <<now, renderVars, layers, lock, cmd_queue, event_queue, producerVars,
                events>>

\* let bmp = Bitmap::new(w, h, on)
BitmapNew(w, h, on) ==
    /\ lpc = "idle"
    /\ bmp' = NewBitmap(w, h, on)
    /\ call' = Call("new", bmp, NoBitmap, 0, 0, w, h, on)
    /\ UNCHANGED <<engineVars, drawables, sent, lpc, devVars>>

\* bmp = bmp.crop(x, y, w, h); a failed assertion ends the caller
BitmapCrop(x, y, w, h) ==
    /\ lpc = "idle"
    /\ call' = Call("crop", bmp, NoBitmap, x, y, w, h, FALSE)
    /\ IF CropInBounds(bmp, x, y, w, h)
       THEN /\ bmp' = Crop(bmp, x, y, w, h)
            /\ UNCHANGED lpc
       ELSE /\ lpc' = "panic"
            /\ UNCHANGED bmp
    /\ UNCHANGED <<engineVars, drawables, sent, devVars>>

\* bmp.blit(&other, x, y, opaque)
BitmapBlit(other, x, y, opaque) ==
    /\ lpc = "idle"
    /\ bmp' = Blit(bmp, other, x, y, opaque)
    /\ call' = Call("blit", bmp, other, x, y, 0, 0, opaque)
    /\ UNCHANGED <<engineVars, drawables, sent, lpc, devVars>>

\* bmp.invert()
BitmapInvert ==
    /\ lpc = "idle"
    /\ bmp' = Invert(bmp)
    /\ call' = Call("invert", bmp, NoBitmap, 0, 0, 0, 0, FALSE)
    /\ UNCHANGED <<engineVars, drawables, sent, lpc, devVars>>

\* usize arithmetic wraps at 2^64 in a build without overflow checks. The
\* model wraps at 2^30, the integers of TLC being 32 bits wide: a wrapped
\* value is only ever compared with sums below 2^30 in either.
USIZE_MODULUS == 2^30

WrappingSub(a, b) == IF a >= b THEN a - b ELSE USIZE_MODULUS - (b - a)

Min(a, b) == IF a <= b THEN a ELSE b

DivCeil(a, b) == (a + b - 1) \div b

\* `w -= (-x) as usize` or `h -= (-y) as usize` goes below zero: a panic in a
\* build with overflow checks
PrepareOverflows(bitmap, x, y) ==
    \/ x < 0 /\ -x > bitmap.w
    \/ y < 0 /\ -y > bitmap.h

\* Device::prepare_for_report up to its split: the rectangle left by moving
\* the source for a negative x or y and cropping the size to the screen
ClipToScreen(bitmap, x, y) ==
    LET w0 == IF x < 0 THEN WrappingSub(bitmap.w, -x) ELSE bitmap.w
        x0 == IF x < 0 THEN 0 ELSE x
        src_x == IF x < 0 THEN -x ELSE 0
        h0 == IF y < 0 THEN WrappingSub(bitmap.h, -y) ELSE bitmap.h
        y0 == IF y < 0 THEN 0 ELSE y
        src_y == IF y < 0 THEN -y ELSE 0
        x1 == Min(x0, DeviceWidth)
        y1 == Min(y0, DeviceHeight)
    IN  [x |-> x1,
         y |-> y1,
         w |-> IF x1 + w0 >= DeviceWidth THEN DeviceWidth - x1 ELSE w0,
         h |-> IF y1 + h0 >= DeviceHeight THEN DeviceHeight - y1 ELSE h0,
         src_x |-> src_x,
         src_y |-> src_y]

\* mutant of PrepareForReport: the visible rectangle is one drawable, not
\* split into chunks of SCREEN_REPORT_SPLIT_SZ columns
PrepareForReportUnsplit(bitmap, x, y) ==
    LET c == ClipToScreen(bitmap, x, y)
    IN  IF c.w = 0
        THEN <<>>
        ELSE <<[w |-> c.w, h |-> c.h, dst_x |-> c.x, dst_y |-> c.y,
                src_x |-> c.src_x, src_y |-> c.src_y]>>

\* Device::prepare_for_report, the Vec of ReportDrawable (each refers to `bitmap`)
PrepareForReport(bitmap, x, y) ==
    LET c == ClipToScreen(bitmap, x, y)
        splits == DivCeil(c.w, SCREEN_REPORT_SPLIT_SZ)
    IN  [k \in 1..splits |->
            LET i == k - 1
            IN  [w |-> Min(SCREEN_REPORT_SPLIT_SZ, c.w - i * SCREEN_REPORT_SPLIT_SZ),
                 h |-> c.h,
                 dst_x |-> c.x + i * SCREEN_REPORT_SPLIT_SZ,
                 dst_y |-> c.y,
                 src_x |-> c.src_x + i * SCREEN_REPORT_SPLIT_SZ,
                 src_y |-> c.src_y]]

\* create_report(d) indexes bitmap.data past its end: BitVec panics
CreateReportPanics(bitmap, d) ==
    /\ d.w > 0
    /\ d.h > 0
    /\ (d.src_y + d.h - 1) * bitmap.w + (d.src_x + d.w - 1) >= Len(bitmap.data)

\* [0u8; len] and the bytes assigned since: index -> value. A byte that was
\* never assigned is 0.
ZeroReport(len) == [len |-> len, bytes |-> [i \in {} |-> 0]]

ByteAt(report, i) == IF i \in DOMAIN report.bytes THEN report.bytes[i] ELSE 0

\* report[i] = v
SetByte(report, i, v) ==
    [report EXCEPT !.bytes = [j \in DOMAIN @ \cup {i} |-> IF j = i THEN v ELSE @[j]]]

\* v as u8
AsU8(v) == v % 256

BitOf(v, k) == (v \div 2^k) % 2

\* v | (1 << k) for every k of bits
OrBits(v, bits) ==
    LET b(k) == IF k \in bits \/ BitOf(v, k) = 1 THEN 2^k ELSE 0
    IN  b(0) + b(1) + b(2) + b(3) + b(4) + b(5) + b(6) + b(7)

\* mutant of StrideH: the stride of Drawable::as_hid_report, which does not
\* look at dst_y
StrideHOfHeight(d) == DivCeil(d.h, 8) * 8

\* let stride_h = (d.dst_y.wrapping_rem(8) + d.h).div_ceil(8) * 8
StrideH(d) == DivCeil((d.dst_y % 8) + d.h, 8) * 8

\* the two loops of create_report on `report`: the turn of column x, row y
\* ORs (bitmap.data[pi] as u8) << (ri % 8) into byte ri / 8 + 6
PackPixels(report, bitmap, d) ==
    LET cells == (0..(d.w - 1)) \X (0..(d.h - 1))
        ri(c) == c[1] * StrideH(d) + c[2]
        pi(c) == (d.src_y + c[2]) * bitmap.w + (d.src_x + c[1])
        at(c) == (ri(c) \div 8) + 6
        touched == {at(c) : c \in cells}
        ones(j) == {ri(c) % 8 : c \in {e \in cells : at(e) = j /\ bitmap.data[pi(e) + 1]}}
    IN  [report EXCEPT !.bytes =
            [j \in DOMAIN @ \cup touched |->
                IF j \in touched THEN OrBits(ByteAt(report, j), ones(j)) ELSE @[j]]]

\* Device::create_report
CreateReport(bitmap, d) ==
    LET r0 == ZeroReport(SCREEN_REPORT_SIZE)
        r1 == SetByte(r0, 0, 6)
        r2 == SetByte(r1, 1, 147)
        r3 == SetByte(r2, 2, AsU8(d.dst_x))
        r4 == SetByte(r3, 3, AsU8(d.dst_y))
        r5 == SetByte(r4, 4, AsU8(d.w))
        r6 == SetByte(r5, 5, AsU8(d.h))
    IN  PackPixels(r6, bitmap, d)

\* dev.draw(&bitmap, x, y) is called and prepare_for_report runs, in a build
\* with (checks) or without overflow checks
DrawCall(bitmap, x, y, checks) ==
    /\ lpc = "idle"
    /\ call' = Call("draw", bitmap, NoBitmap, x, y, 0, 0, checks)
    /\ sent' = <<>>
    /\ reports' = <<>>
    /\ IF checks /\ PrepareOverflows(bitmap, x, y)
       THEN /\ lpc' = "panic"
            /\ drawables' = <<>>
       ELSE /\ drawables' = PrepareForReport(bitmap, x, y)
            /\ lpc' = IF drawables' = <<>> THEN "ok" ELSE "sending"
    /\ UNCHANGED <<engineVars, bmp, connVars>>

\* mutant of DrawSend: the result of send_feature_report is dropped, the
\* loop goes on to the next chunk
DrawSendIgnoringError(ok) ==
    /\ lpc = "sending"
    /\ LET d == Head(drawables)
       IN  IF CreateReportPanics(call.self, d)
           THEN /\ lpc' = "panic"
                /\ drawables' = <<>>
                /\ UNCHANGED <<sent, reports>>
           ELSE /\ reports' = Append(reports, CreateReport(call.self, d))
                /\ sent' = IF ok THEN Append(sent, d) ELSE sent
                /\ drawables' = Tail(drawables)
                /\ lpc' = IF drawables' = <<>> THEN "ok" ELSE "sending"
    /\ UNCHANGED <<engineVars, bmp, call, connVars>>

\* one turn of `for drawable in drawables`: create_report, then
\* send_feature_report(&report)? returns Ok or Err
DrawSend(ok) ==
    /\ lpc = "sending"
    /\ LET d == Head(drawables)
       IN  IF CreateReportPanics(call.self, d)
           THEN /\ lpc' = "panic"
                /\ drawables' = <<>>
                /\ UNCHANGED <<sent, reports>>
           ELSE /\ reports' = Append(reports, CreateReport(call.self, d))
                /\ IF ok
                   THEN /\ sent' = Append(sent, d)
                        /\ drawables' = Tail(drawables)
                        /\ lpc' = IF drawables' = <<>> THEN "ok" ELSE "sending"
                   ELSE /\ lpc' = "err"
                        /\ drawables' = <<>>
                        /\ UNCHANGED sent
    /\ UNCHANGED <<engineVars, bmp, call, connVars>>

\* a Device call on an idle caller: what the call leaves alone
DeviceCall(op, x) ==
    /\ lpc = "idle"
    /\ call' = Call(op, NoBitmap, NoBitmap, x, 0, 0, 0, FALSE)
    /\ UNCHANGED <<engineVars, bmp, drawables, sent>>

\* mutant of SetBrightness: the value is clamped to 1..=10 and sent
SetBrightnessClamped(value, ok) ==
    /\ DeviceCall("set_brightness", value)
    /\ reports' = <<SetByte(SetByte(SetByte(ZeroReport(64), 0, 6), 1, 133), 2,
                            IF value < 1 THEN 1 ELSE Min(value, 10))>>
    /\ lpc' = IF ok THEN "ok" ELSE "err"
    /\ error' = IF ok THEN "" ELSE "io"
    /\ ret' = Unit
    /\ hid' = NoHid
    /\ UNCHANGED <<dev, opened>>

\* dev.set_brightness(value); oled_dev.write(&report)? returns Ok or Err
SetBrightness(value, ok) ==
    /\ DeviceCall("set_brightness", value)
    /\ IF value < 1
       THEN /\ error' = "brightness too low"
            /\ lpc' = "err"
            /\ reports' = <<>>
       ELSE IF value > 10
       THEN /\ error' = "brightness too high"
            /\ lpc' = "err"
            /\ reports' = <<>>
       ELSE /\ reports' = <<SetByte(SetByte(SetByte(ZeroReport(64), 0, 6), 1, 133), 2, value)>>
            /\ lpc' = IF ok THEN "ok" ELSE "err"
            /\ error' = IF ok THEN "" ELSE "io"
    /\ ret' = Unit
    /\ hid' = NoHid
    /\ UNCHANGED <<dev, opened>>

\* 0x38u8.saturating_sub(b)
SaturatingSub(a, b) == IF b > a THEN 0 ELSE a - b

Volume(volume) == [kind |-> "Volume", volume |-> volume]
Battery(headset, charging) ==
    [kind |-> "Battery", headset |-> headset, charging |-> charging]
HeadsetConnection(c) == [kind |-> "HeadsetConnection", connected |-> c]

\* mutant of ParseEvent: byte 0 is not looked at
ParseEventAnyReport(buf) ==
    CASE ByteAt(buf, 1) = 37 -> Some(Volume(SaturatingSub(56, ByteAt(buf, 2))))
      [] ByteAt(buf, 1) = 181 -> Some(HeadsetConnection(ByteAt(buf, 4) = 8))
      [] ByteAt(buf, 1) = 183 -> Some(Battery(ByteAt(buf, 2), ByteAt(buf, 3)))
      [] OTHER -> None

\* Device::parse_event
ParseEvent(buf) ==
    IF ByteAt(buf, 0) # 7
    THEN None
    ELSE CASE ByteAt(buf, 1) = 37 -> Some(Volume(SaturatingSub(56, ByteAt(buf, 2))))
           [] ByteAt(buf, 1) = 181 -> Some(HeadsetConnection(ByteAt(buf, 4) = 8))
           [] ByteAt(buf, 1) = 183 -> Some(Battery(ByteAt(buf, 2), ByteAt(buf, 3)))
           [] OTHER -> None

\* `let mut buf = [0u8; 64]` after info_dev.read(&mut buf) put `bytes` in it
ReadInto(bytes) ==
    [len |-> 64, bytes |-> [i \in 0..(Len(bytes) - 1) |-> bytes[i + 1]]]

\* the loop of get_events over the reads that came before the empty one
RECURSIVE ParseAll(_)
ParseAll(reads) ==
    IF reads = <<>>
    THEN <<>>
    ELSE LET event == ParseEvent(ReadInto(Head(reads)))
         IN  (IF event.some THEN <<event.val>> ELSE <<>>) \o ParseAll(Tail(reads))

\* dev.get_events(): info_dev.read() returns each of `reads`, then 0 bytes
\* (ok) or an Err
DevGetEvents(reads, ok) ==
    /\ DeviceCall("get_events", 0)
    /\ hid' = Hid(<<>>, IF ok THEN "none" ELSE "read", reads)
    /\ IF ok
       THEN /\ ret' = ParseAll(reads)
            /\ lpc' = "ok"
            /\ error' = ""
       ELSE /\ ret' = Unit
            /\ lpc' = "err"
            /\ error' = "io"
    /\ reports' = <<>>
    /\ UNCHANGED <<dev, opened>>

\* an entry of api.device_list(), with the report descriptor its device has
DeviceInfo(vendor_id, product_id, interface_number, path, desc) ==
    [vendor_id |-> vendor_id, product_id |-> product_id,
     interface_number |-> interface_number, path |-> path, desc |-> desc]

VENDOR_ID == 4152
PRODUCT_IDS == {4811, 4813, 4832, 4837}
INTERFACE_NUMBER == 4

\* the filter of connect() on device_list()
Matches(d) ==
    /\ d.vendor_id = VENDOR_ID
    /\ d.product_id \in PRODUCT_IDS
    /\ d.interface_number = INTERFACE_NUMBER

\* mutant of MatchingInfos: with more than two matches the first two are used
FirstTwoMatching(infos) ==
    LET m == SelectSeq(infos, Matches)
    IN  IF Len(m) > 2 THEN SubSeq(m, 1, 2) ELSE m

MatchingInfos(infos) == SelectSeq(infos, Matches)

\* one open_device() call: the path and whether it returned a HidDevice
Open(path, ok) == [path |-> path, ok |-> ok]

\* the descriptor a HidDevice gets at open_device(): the lowest one not held
FreeFd(held) == SetMin({n \in 1..(Cardinality(held) + 1) : n \notin held})

\* descs.iter().position(|desc| desc[1] == byte): 0 if there is none, -1 if
\* the search indexes a descriptor of less than two bytes first (a panic)
Position(descs, byte) ==
    LET hits == {i \in 1..Len(descs) : Len(descs[i]) < 2 \/ descs[i][2] = byte}
    IN  IF hits = {} THEN 0
        ELSE IF Len(descs[SetMin(hits)]) < 2 THEN -1 ELSE SetMin(hits)

\* vec.swap_remove(i - 1): the last element takes the place of the removed one
SwapRemove(vec, i) ==
    IF i = Len(vec)
    THEN SubSeq(vec, 1, Len(vec) - 1)
    ELSE [SubSeq(vec, 1, Len(vec) - 1) EXCEPT ![i] = vec[Len(vec)]]

ConnectOk(oled_dev, info_dev, log) ==
    [ok |-> TRUE, panic |-> FALSE, error |-> "", opened |-> log,
     device |-> DeviceOf(oled_dev, info_dev)]

ConnectErr(msg, log) ==
    [ok |-> FALSE, panic |-> FALSE, error |-> msg, opened |-> log, device |-> Unit]

ConnectPanic(log) ==
    [ok |-> FALSE, panic |-> TRUE, error |-> "", opened |-> log, device |-> Unit]

\* mutant of Identify: the first entry is the OLED interface, the second
\* the info interface
IdentifyByOrder(devices, descs, log) == ConnectOk(devices[1], devices[2], log)

\* connect(), "Identify and open the two devices by their descriptors"
Identify(devices, descs, log) ==
    LET oled_dev_idx == Position(descs, 192)
    IN  IF oled_dev_idx = -1 THEN ConnectPanic(log)
        ELSE IF oled_dev_idx = 0 THEN ConnectErr("No OLED device found", log)
        ELSE LET descs1 == SwapRemove(descs, oled_dev_idx)
                 devices1 == SwapRemove(devices, oled_dev_idx)
                 info_dev_idx == Position(descs1, 0)
             IN  IF info_dev_idx = -1 THEN ConnectPanic(log)
                 ELSE IF info_dev_idx = 0 THEN ConnectErr("No info device found", log)
                 ELSE ConnectOk(devices[oled_dev_idx], devices1[info_dev_idx], log)

\* Device::connect() over the entries `all`, with the descriptors of `held`
\* in use; `fail` names the call of the HID layer that returns Err
Connect(all, fail, held) ==
    LET device_infos == MatchingInfos(all)
        p1 == device_infos[1].path
        p2 == device_infos[2].path
        fd1 == FreeFd(held)
        fd2 == FreeFd(held \cup {fd1})
    IN  IF device_infos = <<>> THEN ConnectErr("No matching devices connected", <<>>)
        ELSE IF Len(device_infos) < 2
        THEN ConnectErr("Too few matching devices connected", <<>>)
        ELSE IF Len(device_infos) > 2
        THEN ConnectErr("Too many matching devices connected", <<>>)
        ELSE IF fail = "open1"
        THEN ConnectErr("Failed to connect to USB device", <<Open(p1, FALSE)>>)
        ELSE IF p1 = p2
        THEN IF fail = "open2"
             THEN ConnectErr("Failed to connect to USB device",
                             <<Open(p1, TRUE), Open(p1, FALSE)>>)
             ELSE ConnectOk(Handle(p1, fd1), Handle(p1, fd2),
                            <<Open(p1, TRUE), Open(p1, TRUE)>>)
        ELSE IF fail = "open2"
        THEN ConnectErr("Failed to connect to USB device",
                        <<Open(p1, TRUE), Open(p2, FALSE)>>)
        ELSE IF fail \in {"desc1", "desc2"}
        THEN ConnectErr("Failed to get USB device HID reports",
                        <<Open(p1, TRUE), Open(p2, TRUE)>>)
        ELSE Identify(<<Handle(p1, fd1), Handle(p2, fd2)>>,
                      <<device_infos[1].desc, device_infos[2].desc>>,
                      <<Open(p1, TRUE), Open(p2, TRUE)>>)

HeldFds == {dev.oled_dev.fd, dev.info_dev.fd}

\* let other = Device::connect(): a second Device next to `dev`
DevConnect(infos, fail) ==
    /\ DeviceCall("connect", 0)
    /\ hid' = Hid(infos, fail, <<>>)
    /\ LET r == Connect(infos, fail, HeldFds)
       IN  /\ opened' = r.opened
           /\ error' = r.error
           /\ ret' = r.device
           /\ lpc' = IF r.panic THEN "panic" ELSE IF r.ok THEN "ok" ELSE "err"
    /\ reports' = <<>>
    /\ UNCHANGED dev

\* what dev.reconnect() does to the Device when connect() returns r
\* (*self = Self::connect()?), and what it leaves alone
ReconnectAssigns(infos, fail, r) ==
    /\ call' = Call("reconnect", NoBitmap, NoBitmap, 0, 0, 0, 0, FALSE)
    /\ hid' = Hid(infos, fail, <<>>)
    /\ opened' = r.opened
    /\ error' = r.error
    /\ dev' = IF r.ok THEN r.device ELSE dev
    /\ UNCHANGED <<bmp, drawables, sent, lpc, reports, ret>>

\* the render thread panics inside dev.reconnect() and is gone
ReconnectPanics ==
    /\ pc = "reconnecting"
    /\ pc' = "panic"
    /\ UNCHANGED <<now, time, stop_after_frame, prev_screen, screen, playing, oled_shift,
                   last_shift, shift_mode, connected, last_connect_attempt,
                   last_frame_time, layers, lock, cmd_queue, event_queue, producerVars,
                   events>>

\* mutant of ReconnectDevice: the Device gives up its handles before
\* connect() runs and is left without them when it fails
ReconnectDeviceDropFirst(infos, fail) ==
    LET r == Connect(infos, fail, {})
    IN  /\ IF r.panic THEN ReconnectPanics ELSE ReconnectReturns(r.ok)
        /\ ReconnectAssigns(infos, fail,
                            IF r.ok THEN r
                            ELSE [r EXCEPT !.ok = TRUE,
                                           !.device = DeviceOf(Handle("", 0), Handle("", 0))])

\* dev.reconnect() in the render thread, over the entries the HID layer
\* enumerates
ReconnectDevice(infos, fail) ==
    LET r == Connect(infos, fail, HeldFds)
    IN  /\ IF r.panic THEN ReconnectPanics ELSE ReconnectReturns(r.ok)
        /\ ReconnectAssigns(infos, fail, r)

\* dev.draw(&screen, 0, 0) in the render thread: send_feature_report takes
\* the first k chunks and fails on the next one, if there is one
DrawScreen(k) ==
    /\ pc = "draw"
    /\ LET ds == PrepareForReport(screen, 0, 0)
           ok == k = Len(ds)
       IN  /\ k <= Len(ds)
           /\ DeviceDrawReturns(ok)
           /\ call' = Call("draw", screen, NoBitmap, 0, 0, 0, 0, FALSE)
           /\ drawables' = <<>>
           /\ sent' = SubSeq(ds, 1, k)
           /\ reports' = [i \in 1..Min(k + 1, Len(ds)) |-> CreateReport(screen, ds[i])]
           /\ error' = IF ok THEN "" ELSE "io"
    /\ UNCHANGED <<bmp, lpc, ret, dev, opened, hid>>

\* what dev.get_events() leaves in the Device's caller when info_dev.read()
\* returns each of `reads`, then 0 bytes (ok) or an Err
GetEventsCalled(reads, ok) ==
    /\ call' = Call("get_events", NoBitmap, NoBitmap, 0, 0, 0, 0, FALSE)
    /\ hid' = Hid(<<>>, IF ok THEN "none" ELSE "read", reads)
    /\ ret' = IF ok THEN ParseAll(reads) ELSE Unit
    /\ error' = IF ok THEN "" ELSE "io"
    /\ reports' = <<>>
    /\ UNCHANGED <<bmp, drawables, sent, lpc, dev, opened>>

\* mutant of PollDevice: the events decoded before the failing read are
\* handed on, then the failure
PollDeviceKeepsDecoded(reads, ok) ==
    /\ pc = "polling"
    /\ events' = ParseAll(reads)
    /\ connected' = ok
    /\ Send([i \in 1..Len(events') |-> DeviceEventOf(events'[i])]
            \o (IF ok THEN <<>> ELSE <<DeviceDisconnected>>))
    /\ pc' = "stop"
    /\ UNCHANGED <<now, time, stop_after_frame, prev_screen, screen, playing, oled_shift,
                   last_shift, shift_mode, last_connect_attempt, last_frame_time, layers,
                   lock, cmd_queue, producerVars>>
    /\ GetEventsCalled(reads, ok)

\* dev.get_events() in the render thread, over the reads of the info
\* interface
PollDevice(reads, ok) ==
    /\ GetEventsReturns(ok, IF ok THEN ParseAll(reads) ELSE <<>>)
    /\ GetEventsCalled(reads, ok)

(* -------------------------- specification ----------------------------- *)

ImgA == Image([w |-> 2, h |-> 1, data |-> <<TRUE, FALSE>>], 0, 0)
ImgB == Image([w |-> 2, h |-> 1, data |-> <<FALSE, TRUE>>], 0, 0)
LayerChoices == {ImgA, ImgB}

Dot == [w |-> 1, h |-> 1, data |-> <<TRUE>>]

\* the render thread, with get_events() reading reports that decode to events of E
Render(E) ==
    \/ LoopTop
    \/ TryRecv
    \/ TryRecvEmpty
    \/ ReconnectCheck
    \/ \E ok \in BOOLEAN : Reconnect(ok)
    \/ RenderFrame
    \/ \E ok \in BOOLEAN : DeviceDraw(ok)
    \/ DropLayers
    \/ EventsCheck
    \/ \E ok \in BOOLEAN : \E evs \in SeqsUpTo(E, MaxRead) : GetEvents(ok, evs)
    \/ StopCheck

\* play/pause/shift-mode commands, the event stream and the end of the engine
Control ==
    \/ Play
    \/ Pause
    \/ \E mode \in ShiftModes : SetShiftMode(mode)
    \/ TryEvent
    \/ Stop
    \/ Drop
    \/ Join
    \/ DropAfterStop

\* the calls on the Layer Store, adding layers of L
LayerOps(L) ==
    \/ \E layer \in L : AddLayer(layer)
    \/ \E id \in HeldIds : RemoveLayer(id)
    \/ ClearLayers
    \/ \E ids \in SeqsUpTo(HeldIds, MaxIds) : RemoveLayersLock(ids)
    \/ RemoveLayersStep
    \/ RemoveLayersUnlock
    \/ \E n \in 1..MaxLines : AddTextLock([i \in 1..n |-> Dot], None, Some(0), 1)
    \/ AddTextStep
    \/ AddTextUnlock

\* the render thread over a device whose I/O succeeds and reports no event
RenderOk ==
    \/ LoopTop
    \/ TryRecv
    \/ TryRecvEmpty
    \/ ReconnectCheck
    \/ RenderFrame
    \/ DeviceDraw(TRUE)
    \/ DropLayers
    \/ EventsCheck
    \/ GetEvents(TRUE, <<>>)
    \/ StopCheck

\* the engine with its control API: connection, commands, events, shutdown
Next == Tick(1, MaxTime) \/ Render({"Volume"}) \/ Control

Spec == Init /\ [][Next]_vars

\* the engine with its Layer Store API
NextLayers == RenderOk \/ LayerOps(LayerChoices) \/ Play

SpecLayers == Init /\ [][NextLayers]_vars

\* a producer that replaces layers with remove_layers followed by add_layer
NextReplace ==
    \/ RenderOk
    \/ Play
    \/ \E layer \in LayerChoices : AddLayer(layer)
    \/ \E ids \in SeqsUpTo(HeldIds, MaxIds) : \E layer \in LayerChoices :
          ReplaceRemove(ids, layer)
    \/ ReplaceAdd

SpecReplace == Init /\ [][NextReplace]_vars

\* the tray application: every change of its layers is an update between
\* pause() and play()
NextUpdate ==
    \/ RenderOk
    \/ Play
    \/ UpdatePause
    \/ UpdateRemove
    \/ \E layer \in LayerChoices : UpdateAdd(layer)
    \/ UpdatePlay

SpecUpdate == Init /\ [][NextUpdate]_vars

\* the event stream: a paused engine whose device reports up to MaxReports
\* events of two kinds per tick, and a consumer of the event channel
DeviceEvents == {"Volume", "Battery"}

NextEvents ==
    \/ Tick(1, MaxTime)
    \/ LoopTop
    \/ TryRecvEmpty
    \/ ReconnectCheck
    \/ \E ok \in BOOLEAN : Reconnect(ok)
    \/ RenderFrame
    \/ EventsCheck
    \/ \E ok \in BOOLEAN : \E evs \in SeqsUpTo(DeviceEvents, MaxReports) : GetEvents(ok, evs)
    \/ StopCheck
    \/ TryEvent

SpecEvents == Init /\ [][NextEvents]_vars

\* a caller of Bitmap: new, crop, blit and invert in any order
BlitSources ==
    {Dot, ImgA.bitmap, NewBitmap(2, 2, FALSE), NewBitmap(1, 2, TRUE)}

NextBitmap ==
    \/ \E w \in 0..MaxBitmapW : \E h \in 0..MaxBitmapH : \E on \in BOOLEAN :
          BitmapNew(w, h, on)
    \/ \E x \in 0..MaxBitmapW : \E y \in 0..MaxBitmapH :
          \E w \in 0..MaxBitmapW : \E h \in 0..MaxBitmapH : BitmapCrop(x, y, w, h)
    \/ \E other \in BlitSources : \E x \in (-MaxOffset)..MaxOffset :
          \E y \in (-MaxOffset)..MaxOffset : \E opaque \in BOOLEAN :
             BitmapBlit(other, x, y, opaque)
    \/ BitmapInvert

SpecBitmap == Init /\ [][NextBitmap]_vars

\* a caller of Device::draw: bitmaps and offsets at and around the edges of
\* the screen and of one report
Near(S) == UNION {(c - MaxOver)..(c + MaxOver) : c \in S}

DrawBitmaps ==
    {NewBitmap(w, 1, TRUE) :
        w \in (0..MaxOver) \cup {SCREEN_REPORT_SPLIT_SZ + k : k \in 0..MaxOver}
                           \cup {DeviceWidth + k : k \in 0..MaxOver}}
    \cup {NewBitmap(1, DeviceHeight + k, TRUE) : k \in 0..MaxOver}
    \cup {NewBitmap(MaxOver, MaxOver, TRUE)}

DrawXs == Near({-DeviceWidth, -SCREEN_REPORT_SPLIT_SZ, 0, SCREEN_REPORT_SPLIT_SZ, DeviceWidth})

DrawYs == Near({-DeviceHeight, 0, DeviceHeight})

NextDraw ==
    \/ /\ lpc = "idle"
       /\ \E bitmap \in DrawBitmaps : \E x \in DrawXs : \E y \in DrawYs :
             \E checks \in BOOLEAN : DrawCall(bitmap, x, y, checks)
    \/ \E ok \in BOOLEAN : DrawSend(ok)

SpecDraw == Init /\ [][NextDraw]_vars

\* a caller of Device::draw whose chunks lie inside one report: every on/off
\* pattern of the small sizes at every dst_y mod 8, and a bitmap that ends
\* in a second chunk, an all but full chunk and a full column
PatternBitmaps ==
    UNION {{[w |-> w, h |-> h, data |-> d] : d \in [1..(w * h) -> BOOLEAN]} :
              <<w, h>> \in (1..MaxBitmapW) \X (1..MaxBitmapH)}

ReportBitmaps ==
    PatternBitmaps \cup {NewBitmap(SCREEN_REPORT_SPLIT_SZ + 1, 1, TRUE),
                         NewBitmap(1, DeviceHeight, TRUE),
                         NewBitmap(SCREEN_REPORT_SPLIT_SZ - 1, MaxBitmapH, TRUE)}

ReportXs == (-MaxOffset)..MaxOffset

ReportYs == (-MaxOffset)..(8 + MaxOffset)

NextReport ==
    \/ /\ lpc = "idle"
       /\ \E bitmap \in ReportBitmaps : \E x \in ReportXs : \E y \in ReportYs :
             DrawCall(bitmap, x, y, TRUE)
    \/ \E ok \in BOOLEAN : DrawSend(ok)

SpecReport == Init /\ [][NextReport]_vars

\* a caller of Device::draw with bitmaps as large as the screen and larger:
\* the full screen at the origin and at the row offsets that change the
\* stride, and narrow or low bitmaps at and around every edge
FullScreen == NewBitmap(DeviceWidth, DeviceHeight, TRUE)

EdgeBitmaps ==
    {NewBitmap(MaxOver, DeviceHeight + k, TRUE) : k \in 0..MaxOver}
    \cup {NewBitmap(SCREEN_REPORT_SPLIT_SZ + k, MaxOver, TRUE) : k \in 0..MaxOver}
    \cup {NewBitmap(DeviceWidth + k, 1, TRUE) : k \in 0..MaxOver}

NextScreen ==
    \/ /\ lpc = "idle"
       /\ \E y \in {0, 7} : DrawCall(FullScreen, 0, y, TRUE)
    \/ /\ lpc = "idle"
       /\ \E bitmap \in EdgeBitmaps : \E x \in DrawXs : \E y \in DrawYs :
             \E checks \in BOOLEAN : DrawCall(bitmap, x, y, checks)
    \/ \E ok \in BOOLEAN : DrawSend(ok)

SpecScreen == Init /\ [][NextScreen]_vars

\* a caller of the Device: brightness values around the valid range, reads
\* of the info interface, and the device lists connect() may find
BrightnessValues == (0..(10 + MaxOver)) \cup {255}

RawReads ==
    {<<b0, b1, b[1], b[2], b[3]>> :
        b0 \in {6, 7}, b1 \in {37, 181, 182, 183},
        b \in {<<1, 0, 0>>, <<57, 1, 8>>}}
    \cup {<<7, 37, 56>>, <<7>>, <<0, 37>>}

Descriptors == {<<6, 192>>, <<6, 0>>, <<6, 1>>, <<6>>}

HidEntries ==
    {DeviceInfo(VENDOR_ID, 4832, INTERFACE_NUMBER, path, desc) :
        path \in {"hid2", "hid3"}, desc \in Descriptors}
    \cup {DeviceInfo(VENDOR_ID, 4811, INTERFACE_NUMBER, "hid2", <<6, 192>>),
          DeviceInfo(VENDOR_ID + 1, 4832, INTERFACE_NUMBER, "hid4", <<6, 192>>),
          DeviceInfo(VENDOR_ID, 4833, INTERFACE_NUMBER, "hid4", <<6, 0>>),
          DeviceInfo(VENDOR_ID, 4832, INTERFACE_NUMBER - 1, "hid4", <<6, 0>>)}

ConnectFailures == {"none", "open1", "open2", "desc1", "desc2"}

NextDevice ==
    \/ /\ lpc = "idle"
       /\ \E value \in BrightnessValues : \E ok \in BOOLEAN : SetBrightness(value, ok)
    \/ /\ lpc = "idle"
       /\ \E reads \in SeqsUpTo(RawReads, MaxReads) : \E ok \in BOOLEAN :
             DevGetEvents(reads, ok)
    \/ /\ lpc = "idle"
       /\ \E infos \in SeqsUpTo(HidEntries, MaxInfos) : \E fail \in ConnectFailures :
             DevConnect(infos, fail)

SpecDevice == Init /\ [][NextDevice]_vars

\* the paused engine over a device that comes and goes: polls that fail, and
\* the device lists its reconnect() may find
OledInfo(path, desc) == DeviceInfo(VENDOR_ID, 4832, INTERFACE_NUMBER, path, desc)

ReconnectLists ==
    {<<>>,
     <<OledInfo("hid2", <<6, 192>>)>>,
     <<OledInfo("hid2", <<6, 192>>), OledInfo("hid3", <<6, 0>>)>>,
     <<OledInfo("hid0", <<6, 0>>), OledInfo("hid1", <<6, 192>>)>>,
     <<OledInfo("hid2", <<6, 0>>), OledInfo("hid2", <<6, 0>>)>>,
     <<OledInfo("hid2", <<6, 192>>), OledInfo("hid3", <<6, 192>>)>>,
     <<OledInfo("hid2", <<6>>), OledInfo("hid3", <<6, 0>>)>>,
     <<OledInfo("hid2", <<6, 192>>), OledInfo("hid3", <<6, 0>>),
       OledInfo("hid4", <<6, 0>>)>>}

NextReconnect ==
    \/ Tick(1, MaxTime)
    \/ LoopTop
    \/ TryRecvEmpty
    \/ ReconnectCheck
    \/ \E infos \in ReconnectLists : \E fail \in ConnectFailures :
          ReconnectDevice(infos, fail)
    \/ RenderFrame
    \/ EventsCheck
    \/ \E ok \in BOOLEAN : GetEvents(ok, <<>>)
    \/ StopCheck
    \/ TryEvent

SpecReconnect == Init /\ [][NextReconnect]_vars

\* the compositor: every kind of layer, the shift cycle
ImgLow == Image([w |-> 2, h |-> 1, data |-> <<TRUE, TRUE>>], -1, 1)
AnimAB ==
    Animation(<<Frame(ImgA.bitmap, None), Frame(ImgB.bitmap, Some(1))>>, 0, 0, TRUE)
ScrollDot == Scroll(Dot, 0)
AllLayerChoices == {ImgA, ImgB, ImgLow, AnimAB, ScrollDot}

\* the store after add_layer(ls[1]), .., add_layer(ls[n]) on a new DrawDevice
StoreOf(ls) == [id \in 1..Len(ls) |-> DrawLayerState(ls[id], 0)]

\* a new DrawDevice over `device` on which the producer has added layers and
\* called set_shift_mode(mode) and play() before the render thread's first
\* drain
InitOn(ls, mode, device) ==
    /\ now = 0
    /\ pc = "loop"
    /\ time = 0
    /\ stop_after_frame = FALSE
    /\ prev_screen = NewBitmap(0, 0, FALSE)
    /\ screen = NewBitmap(0, 0, FALSE)
    /\ playing = FALSE
    /\ oled_shift = 0
    /\ last_shift = 0
    /\ shift_mode = "Off"
    /\ connected = TRUE
    /\ last_connect_attempt = 0
    /\ last_frame_time = 0
    /\ layers = StoreOf(ls)
    /\ lock = "free"
    /\ cmd_queue = <<CmdSetShiftMode(mode), CmdPlay>>
    /\ event_queue = <<>>
    /\ layer_counter = Len(ls)
    /\ thread = TRUE
    /\ ppc = "idle"
    /\ pending = <<>>
    /\ issued = 1..Len(ls)
    /\ last_play_sent = TRUE
    /\ last_mode_sent = mode
    /\ events = <<>>
    /\ LibIdleOn(device)

InitWith(ls, mode) == InitOn(ls, mode, SmallDevice)

InitComposite ==
    \E ls \in SeqsUpTo(AllLayerChoices, MaxLayerId) : \E mode \in ShiftModes :
        InitWith(ls, mode)

NextComposite ==
    \/ Tick(OLED_SHIFT_PERIOD, MaxShiftTicks * OLED_SHIFT_PERIOD)
    \/ RenderOk

SpecComposite == InitComposite /\ [][NextComposite]_vars

\* animations: one Animation layer of up to MaxFrames frames with no delay,
\* a delay of 0, 1 or 2, following the fps or not
FrameChoices ==
    {Frame(ImgA.bitmap, None), Frame(ImgB.bitmap, Some(1)), Frame(ImgB.bitmap, Some(2)),
     Frame(Dot, Some(0))}

AnimChoices ==
    {Animation(frames, 0, 0, follow_fps) :
        frames \in SeqsUpTo(FrameChoices, MaxFrames), follow_fps \in BOOLEAN}

InitAnim == \E layer \in AnimChoices : InitWith(<<layer>>, "Off")

NextAnim ==
    \/ Tick(1, MaxTime)
    \/ RenderOk

SpecAnim == InitAnim /\ [][NextAnim]_vars

\* scrolling: one Scroll layer on a screen of the width of the device, with
\* a bitmap of a pixel or two or one as wide as the screen less the margin
WideDevice == [DeviceOf(Handle("hid0", 1), Handle("hid1", 2)) EXCEPT !.height = ScreenH]

ScrollChoices ==
    {Scroll(Dot, 0), Scroll(ImgA.bitmap, 0)}
    \cup {Scroll(NewBitmap(DeviceWidth - MARGIN + k, 1, TRUE), 0) : k \in 0..MaxOver}

InitScroll == \E layer \in ScrollChoices : InitOn(<<layer>>, "Off", WideDevice)

NextScroll ==
    \/ Tick(1, MaxTime)
    \/ RenderOk

SpecScroll == InitScroll /\ [][NextScroll]_vars

\* frames and their writes: one layer on a screen of two chunks, a device
\* whose writes fail on either chunk and which comes back
FrameLayers == {ImgA, AnimAB}

InitFrames == \E layer \in FrameLayers : InitOn(<<layer>>, "Off", WideDevice)

NextFrames ==
    \/ Tick(1, MaxTime)
    \/ LoopTop
    \/ TryRecv
    \/ TryRecvEmpty
    \/ ReconnectCheck
    \/ \E ok \in BOOLEAN : Reconnect(ok)
    \/ RenderFrame
    \/ \E k \in 0..DivCeil(DeviceWidth, SCREEN_REPORT_SPLIT_SZ) : DrawScreen(k)
    \/ DropLayers
    \/ EventsCheck
    \/ GetEvents(TRUE, <<>>)
    \/ StopCheck
    \/ TryEvent

SpecFrames == InitFrames /\ [][NextFrames]_vars

\* the paused engine polling a device whose info interface gives up to
\* MaxReads reports (a Volume report, a Battery report, a report that is no
\* event), then nothing more or an error
PollReads == {<<7, 37, 1>>, <<7, 183, 57, 1>>, <<6, 37, 1>>}

NextPoll ==
    \/ Tick(1, MaxTime)
    \/ LoopTop
    \/ TryRecvEmpty
    \/ ReconnectCheck
    \/ \E ok \in BOOLEAN : Reconnect(ok)
    \/ RenderFrame
    \/ EventsCheck
    \/ /\ pc = "polling"
       /\ \E reads \in SeqsUpTo(PollReads, MaxReads) : \E ok \in BOOLEAN :
             PollDevice(reads, ok)
    \/ StopCheck
    \/ TryEvent

SpecPoll == Init /\ [][NextPoll]_vars

\* render state: an animation or a scroll on show in shift mode Simple, a
\* producer that pauses, plays, adds and removes, a device whose writes fail
\* and which comes back. The producer sends a command when the channel is
\* empty, and the scroll is followed for MaxTicks columns.
InitState == \E layer \in {AnimAB, ScrollDot} : InitWith(<<layer>>, "Simple")

NextState ==
    \/ Tick(OLED_SHIFT_PERIOD, MaxShiftTicks * OLED_SHIFT_PERIOD)
    \/ LoopTop
    \/ TryRecv
    \/ TryRecvEmpty
    \/ ReconnectCheck
    \/ \E ok \in BOOLEAN : Reconnect(ok)
    \/ /\ \A id \in DOMAIN layers : layers[id].scroll.x > -MaxTicks
       /\ RenderFrame
    \/ \E ok \in BOOLEAN : DeviceDraw(ok)
    \/ DropLayers
    \/ EventsCheck
    \/ GetEvents(TRUE, <<>>)
    \/ StopCheck
    \/ cmd_queue = <<>> /\ Play
    \/ cmd_queue = <<>> /\ Pause
    \/ AddLayer(ImgA)
    \/ \E id \in HeldIds : RemoveLayer(id)

SpecState == InitState /\ [][NextState]_vars

\* the end of the engine: a producer that plays, pauses and then ends the
\* DrawDevice through stop() or by dropping it
NextStop ==
    \/ RenderOk
    \/ Play
    \/ Pause
    \/ Stop
    \/ Drop
    \/ Join
    \/ DropAfterStop

SpecStop == Init /\ [][NextStop]_vars

\* the shift cycle: one still layer, the clock in steps of the shift period
InitShift == \E mode \in ShiftModes : InitWith(<<ImgLow>>, mode)

NextShift ==
    \/ Tick(OLED_SHIFT_PERIOD, MaxShiftCycle * OLED_SHIFT_PERIOD)
    \/ RenderOk
    \/ \E mode \in ShiftModes : SetShiftMode(mode)

SpecShift == InitShift /\ [][NextShift]_vars

(* ============================== claims ================================ *)

\* the events a step appends to the event channel
NewEvents ==
    IF Len(event_queue') > Len(event_queue)
    THEN SubSeq(event_queue', Len(event_queue) + 1, Len(event_queue'))
    ELSE <<>>

OnlyDisconnected == <<DeviceDisconnected>>
OnlyReconnected == <<DeviceReconnected>>
NoEvents == <<>>

Emits(e) == \E i \in 1..Len(NewEvents) : NewEvents[i] = e

\* the steps in which the render thread calls into the Device
DrawCalled == pc = "render" /\ pc' = "draw"
ReconnectCalled == pc = "reconnect" /\ pc' = "reconnecting"

\* a Device call of the render thread returns an error
IOFailure == DeviceDraw(FALSE) \/ GetEvents(FALSE, <<>>) \/ Reconnect(FALSE)

\* C1: in every render tick the render thread has released the Layer Store
\* lock before it calls Device::draw(), so that no producer call waits for a
\* device write.
C1_LockReleasedBeforeDraw == pc = "draw" => lock # "render"

\* C2: after a write failure while connected and playing exactly one
\* DeviceDisconnected is emitted and none while disconnected; reconnect() is
\* called only when RECONNECT_PERIOD has passed since the tick of the previous
\* call; the first reconnect() that succeeds (and no other step) emits exactly
\* one DeviceReconnected; draw() is never called while disconnected.
C2_Reconnection ==
    /\ [][DeviceDraw(FALSE) =>
            connected /\ playing /\ ~connected' /\ NewEvents = OnlyDisconnected]_vars
    /\ [][~connected => ~Emits(DeviceDisconnected)]_vars
    /\ [][ReconnectCalled =>
            /\ ~connected
            /\ time - last_connect_attempt >= RECONNECT_PERIOD
            /\ last_connect_attempt' = time]_vars
    /\ [][last_connect_attempt' # last_connect_attempt => ReconnectCalled]_vars
    /\ [][Reconnect(FALSE) => ~connected' /\ NewEvents = NoEvents]_vars
    /\ [][Reconnect(TRUE) =>
            ~connected /\ connected' /\ NewEvents = OnlyReconnected]_vars
    /\ [][Emits(DeviceReconnected) => Reconnect(TRUE)]_vars
    /\ [][DrawCalled => connected]_vars
    /\ [](pc = "draw" => connected)

\* C2 witness: a write failed, and the reconnect of this tick succeeded
C2_Witness ==
    /\ pc = "render"
    /\ connected
    /\ playing
    /\ last_connect_attempt = time
    /\ time >= RECONNECT_PERIOD
    /\ event_queue = <<DeviceDisconnected, DeviceReconnected>>

\* C3: the connection state starts Connected; it goes from Connected to
\* Disconnected only in a step where draw() or get_events() returns an error,
\* and from Disconnected to Connected only where the reconnect() called in
\* this tick returns Ok.
C3_ConnectionStateMachine ==
    /\ connected = TRUE
    /\ [][connected /\ ~connected' => DeviceDraw(FALSE) \/ GetEvents(FALSE, <<>>)]_vars
    /\ [][~connected /\ connected' =>
            Reconnect(TRUE) /\ last_connect_attempt = time]_vars

\* C3 witness: disconnected by a failed poll while paused, then reconnected
C3_Witness ==
    /\ pc = "render"
    /\ connected
    /\ ~playing
    /\ last_connect_attempt = time
    /\ time >= RECONNECT_PERIOD

engineSide == <<renderVars, event_queue, layers, lock>>

\* C5: the iteration that drained Stop ends in the thread's exit, whatever
\* the connection and play state; the join of stop() and of drop returns only
\* once the thread has exited, and after stop() has returned the render
\* thread changes nothing and does no device I/O.
C5_StopJoinsThread ==
    /\ [](ppc \in {"stop_drop", "stopped", "dropped"} => pc = "exited")
    /\ [][stop_after_frame /\ pc = "stop" /\ pc' # pc => pc' = "exited"]_vars
    /\ [][(ppc \in {"stop_drop", "stopped", "dropped"}) => UNCHANGED engineSide]_vars

\* C5 witness: stop() has returned from an engine that was disconnected and
\* paused
C5_Witness == ppc = "stopped" /\ pc = "exited" /\ ~connected /\ ~playing

\* C6: the iteration that drained Stop goes through the whole tick (the due
\* reconnect, the composite and draw if connected and playing, the event
\* poll) with the play state and shift mode of the commands sent before Stop,
\* and leaves the loop at its end instead of sleeping.
C6_StopTickFlow ==
    /\ pc = "drain" => pc' = "reconnect"
    /\ pc = "reconnect" =>
          pc' = IF ~connected /\ time - last_connect_attempt >= RECONNECT_PERIOD
                THEN "reconnecting" ELSE "render"
    /\ pc = "reconnecting" => pc' = "render"
    /\ pc = "render" =>
          IF connected /\ playing
          THEN /\ lock' = "render"
               /\ screen'.w = ScreenW /\ screen'.h = ScreenH
               /\ pc' = IF screen' # prev_screen
                           \/ now - last_frame_time >= FORCE_REDRAW_PERIOD
                        THEN "draw" ELSE "drop"
          ELSE pc' = "events"
    /\ pc = "draw" => pc' = "drop"
    /\ pc = "drop" => pc' = "events"
    /\ pc = "events" => pc' = IF connected THEN "polling" ELSE "stop"
    /\ pc = "polling" => pc' = "stop"
    /\ pc = "stop" => pc' = "exited"

C6_StopTickCompletes ==
    /\ [][stop_after_frame /\ pc' # pc => C6_StopTickFlow]_vars
    /\ [](stop_after_frame => playing = last_play_sent /\ shift_mode = last_mode_sent)

\* C6 witness: the device write of the iteration that drained Stop
C6_Witness == stop_after_frame /\ pc = "draw" /\ ~thread

\* the play state and shift mode after applying the commands of q in order
RECURSIVE ApplyAll(_, _, _)
ApplyAll(q, p, m) ==
    IF q = <<>> THEN <<p, m>>
    ELSE ApplyAll(Tail(q),
                  CASE Head(q).tag = "Play" -> TRUE
                    [] Head(q).tag = "Pause" -> FALSE
                    [] OTHER -> p,
                  IF Head(q).tag = "SetShiftMode" THEN Head(q).mode ELSE m)

\* C7: the commands sent are applied once each and in send order: what is
\* applied plus what is still queued always amounts to the last Play/Pause
\* and the last SetShiftMode sent; the drain ends only on an empty channel,
\* with the play state and shift mode of the last commands sent; commands are
\* applied nowhere but in the drain; Stop is the last command of the channel
\* and nothing is left to apply once it is honoured.
C7_CommandsInOrder ==
    /\ [](ApplyAll(cmd_queue, playing, shift_mode) = <<last_play_sent, last_mode_sent>>)
    /\ [][pc = "drain" /\ pc' # pc =>
            /\ cmd_queue = <<>>
            /\ playing' = last_play_sent
            /\ shift_mode' = last_mode_sent]_vars
    /\ [][pc # "drain" =>
            /\ playing' = playing /\ shift_mode' = shift_mode
            /\ stop_after_frame' => stop_after_frame
            /\ Len(cmd_queue') >= Len(cmd_queue)]_vars
    /\ [](\A i \in 1..Len(cmd_queue) :
            cmd_queue[i] = CmdStop => i = Len(cmd_queue) /\ ~thread)
    /\ [](stop_after_frame => cmd_queue = <<>>)

\* C7 witness: a drain that applied Play, SetShiftMode(Simple) and Stop
C7_Witness ==
    /\ pc = "reconnect"
    /\ stop_after_frame
    /\ playing
    /\ shift_mode = "Simple"

\* what a composite pass leaves behind in the render thread
renderState == <<screen, prev_screen, last_frame_time, oled_shift, last_shift, layers, lock>>

\* C8: while paused no tick calls draw() or composites, but a due reconnect
\* is still attempted, a connected device is still polled and its events are
\* still republished.
C8_PausedStillServices ==
    /\ [](pc = "draw" => playing)
    /\ [][~playing /\ pc = "render" /\ pc' # pc =>
            (pc' = "events" /\ UNCHANGED renderState)]_vars
    /\ [][~playing /\ pc = "reconnect" /\ pc' # pc
            /\ ~connected /\ time - last_connect_attempt >= RECONNECT_PERIOD =>
            pc' = "reconnecting" /\ last_connect_attempt' = time]_vars
    /\ [][~playing /\ pc = "events" /\ pc' # pc /\ connected => pc' = "polling"]_vars
    /\ [][~playing =>
            \A evs \in SeqsUpTo({"Volume"}, MaxRead) :
                GetEvents(TRUE, evs) =>
                    NewEvents = [i \in 1..Len(evs) |-> DeviceEventOf(evs[i])]]_vars

\* C8 witness: paused, reconnected in this tick, and polling the device
C8_Witness ==
    /\ ~playing
    /\ pc = "polling"
    /\ last_connect_attempt = time
    /\ time >= RECONNECT_PERIOD

\* C9: every add_layer and every line of add_text returns a LayerId that is
\* not LayerId::none(), is greater than every id returned before, was never
\* returned before, and names the layer just inserted, also after removals
\* and clear_layers.
C9_LayerIdsFresh ==
    [][(\E layer \in LayerChoices : AddLayer(layer)) \/ AddTextStep =>
        \E id \in issued' :
            /\ id \notin issued
            /\ issued' = issued \cup {id}
            /\ id # LayerIdNone
            /\ \A old \in issued : id > old
            /\ DOMAIN layers' = DOMAIN layers \cup {id}]_vars

\* C9 witness: a second id handed out after the first layer was removed
C9_Witness == issued = {1, 2} /\ DOMAIN layers = {2}

\* a set pixel of bitmap at bitmap coordinates (ox, oy)
PixelOn(bitmap, ox, oy) ==
    /\ ox >= 0 /\ ox < bitmap.w
    /\ oy >= 0 /\ oy < bitmap.h
    /\ bitmap.data[ox + oy * bitmap.w + 1]

\* layer state st has a set pixel at screen position (px, py) under shift
LayerShows(st, px, py, shift) ==
    CASE st.layer.kind = "Image" ->
            PixelOn(st.layer.bitmap, px - (st.layer.x + shift[1]), py - (st.layer.y + shift[2]))
      [] st.layer.kind = "Animation" ->
            /\ st.layer.frames # <<>>
            /\ PixelOn(st.layer.frames[(st.anim.ticks % Len(st.layer.frames)) + 1].bitmap,
                       px - (st.layer.x + shift[1]), py - (st.layer.y + shift[2]))
      [] st.layer.kind = "Scroll" ->
            \E i \in 0..(1 + ScreenW \div (st.layer.bitmap.w + MARGIN)) :
                PixelOn(st.layer.bitmap,
                        px - (st.scroll.x + i * (st.layer.bitmap.w + MARGIN) + shift[1]),
                        py - (st.layer.y + shift[2]))

\* C10: the composite of a tick is a blank screen-sized bitmap on which a
\* pixel is on exactly when some layer of the store has a set pixel there,
\* at its position moved by the tick's shift; overlapping layers all show.
C10_CompositeIsUnion ==
    [][pc = "render" /\ pc' \in {"draw", "drop"} =>
        LET shift == IF shift_mode = "Off" THEN <<0, 0>> ELSE OLED_SHIFTS[oled_shift' + 1]
        IN  /\ screen'.w = ScreenW
            /\ screen'.h = ScreenH
            /\ \A px \in 0..(ScreenW - 1) : \A py \in 0..(ScreenH - 1) :
                  screen'.data[px + py * ScreenW + 1]
                      <=> \E id \in DOMAIN layers : LayerShows(layers[id], px, py, shift)]_vars

\* C10 witness: L1 then L2 overlap and the composite shows the pixels of both
C10_Witness ==
    /\ pc = "draw"
    /\ DOMAIN layers = {1, 2}
    /\ layers[1].layer = ImgA
    /\ layers[2].layer = ImgB
    /\ screen.data[1]
    /\ screen.data[2]

\* the render thread locks the Layer Store and makes the composite of a tick
Composites == pc = "render" /\ pc' \in {"draw", "drop"}

\* C11: every call on the Layer Store is atomic for the compositor: while
\* remove_layers or add_text is between two of its ids or lines the producer
\* holds the lock, a composite pass starts only when no call is under way,
\* and it shows every layer the completed calls have left in the store.
C11_StoreCallsAtomic ==
    [][/\ (ppc \in {"remove_layers", "add_text"}) => lock = "producer"
       /\ Composites =>
             /\ ppc = "idle"
             /\ pending = <<>>
             /\ \A id \in DOMAIN layers :
                   \A px \in 0..(ScreenW - 1) : \A py \in 0..(ScreenH - 1) :
                      LayerShows(layers[id], px, py, <<0, 0>>)
                          => screen'.data[px + py * ScreenW + 1]]_vars

\* C11 witness: a frame composited after add_text has added its two lines,
\* one pixel of each line on the screen
C11_Witness ==
    /\ pc = "draw"
    /\ DOMAIN layers = {1, 2}
    /\ layers[1].layer.bitmap = Dot
    /\ layers[2].layer.bitmap = Dot
    /\ screen.data = <<TRUE, FALSE, TRUE, FALSE>>

\* C12: between remove_layers and the add_layer that follows the producer
\* does not hold the lock, and a composite pass the render thread makes there
\* is the frame of the intermediate store (the old layers gone, the new one
\* not there yet), which is written when it differs from the last frame sent.
C12_TransientFrame ==
    [][(ppc = "replace") =>
          /\ lock # "producer"
          /\ Composites =>
                /\ NextLayerId \notin DOMAIN layers
                /\ \A px \in 0..(ScreenW - 1) : \A py \in 0..(ScreenH - 1) :
                      screen'.data[px + py * ScreenW + 1]
                          <=> \E id \in DOMAIN layers :
                                 LayerShows(layers[id], px, py, <<0, 0>>)
                /\ (screen' # prev_screen) => pc' = "draw"]_vars

\* C12 witness: the device shows the old layer, the producer is between its
\* two calls and the render thread is writing the blank frame of the emptied
\* store
C12_Witness ==
    /\ ppc = "replace"
    /\ pc = "draw"
    /\ layers = EmptyLayers
    /\ prev_screen.data = <<TRUE, FALSE, FALSE, FALSE>>
    /\ screen.data = <<FALSE, FALSE, FALSE, FALSE>>

\* C13: in a connected and playing tick draw() is called exactly when the
\* composite differs from the last frame sent or a second or more has passed
\* since the last draw() call; prev_screen is the last frame whose draw()
\* returned Ok and last_frame_time the time of the last draw() call.
C13_DrawIffChangedOrHeartbeat ==
    [][/\ (pc = "render" /\ pc' # pc /\ connected /\ playing) =>
             /\ Composites
             /\ DrawCalled <=> (screen' # prev_screen \/ now - last_frame_time >= 1)
             /\ (screen' = prev_screen /\ now - last_frame_time < 1) => pc' = "drop"
       /\ (pc = "render" /\ ~(connected /\ playing)) => ~DrawCalled
       /\ (last_frame_time' # last_frame_time) => (DrawCalled /\ last_frame_time' = now)
       /\ DrawCalled => last_frame_time' = now
       /\ (prev_screen' # prev_screen) => (pc = "draw" /\ prev_screen' = screen)]_vars

\* C13 witness: a heartbeat, the frame being written equals the last one sent
C13_Witness ==
    /\ pc = "draw"
    /\ screen = prev_screen
    /\ last_frame_time = now
    /\ now >= OLED_SHIFT_PERIOD

\* the order of offsets C14 names
ShiftCycle ==
    << <<0, 0>>, <<0, -1>>, <<1, -1>>, <<1, 0>>, <<1, 1>>, <<0, 1>>, <<-1, 1>>,
       <<-1, 0>>, <<-1, -1>> >>

\* C14: under ShiftMode::Simple the offset of the composite is the entry of
\* the nine-entry cycle at the shift index, which advances by one, wrapping
\* after the ninth, in a connected playing tick 90 s or more after its last
\* advance and in no other step; under ShiftMode::Off the offset is (0,0).
C14_ShiftCycle ==
    [][/\ OLED_SHIFTS = ShiftCycle
       /\ oled_shift \in 0..8
       /\ (oled_shift' # oled_shift \/ last_shift' # last_shift) =>
             /\ Composites
             /\ connected /\ playing /\ shift_mode = "Simple"
             /\ time - last_shift >= 90
             /\ oled_shift' = (oled_shift + 1) % 9
             /\ last_shift' = time
       /\ (Composites /\ shift_mode = "Simple" /\ time - last_shift >= 90) =>
             oled_shift' # oled_shift
       /\ Composites =>
             LET shift == IF shift_mode = "Off" THEN <<0, 0>>
                          ELSE ShiftCycle[oled_shift' + 1]
             IN  \A px \in 0..(ScreenW - 1) : \A py \in 0..(ScreenH - 1) :
                    screen'.data[px + py * ScreenW + 1]
                        <=> \E id \in DOMAIN layers :
                               LayerShows(layers[id], px, py, shift)]_vars

\* C14 witness: nine advances in 9 x 90 s, the index is back at (0,0)
C14_Witness ==
    /\ pc = "draw"
    /\ shift_mode = "Simple"
    /\ oled_shift = 0
    /\ last_shift = 9 * OLED_SHIFT_PERIOD

\* C15: get_events() is called only while connected; when it returns its
\* events the channel gets one DeviceEvent per event, in the order read, and
\* nothing else; when it fails the engine is Disconnected and the channel
\* gets DeviceDisconnected alone; the channel is first in, first out.
C15_EventsInOrder ==
    [][/\ (pc = "polling") => connected
       /\ (pc = "polling" /\ pc' # pc) =>
             IF connected'
             THEN event_queue' =
                     event_queue \o [i \in 1..Len(events') |-> DeviceEventOf(events'[i])]
             ELSE /\ events' = <<>>
                  /\ event_queue' = Append(event_queue, DeviceDisconnected)
       /\ (Len(event_queue') < Len(event_queue)) => event_queue' = Tail(event_queue)
       /\ (Len(event_queue') >= Len(event_queue)) =>
             SubSeq(event_queue', 1, Len(event_queue)) = event_queue]_vars

\* C15 witness: two reports of different kinds read in one tick and published
\* in that order
C15_Witness ==
    /\ pc = "stop"
    /\ events = <<"Volume", "Battery">>
    /\ event_queue = <<DeviceEventOf("Volume"), DeviceEventOf("Battery")>>

\* the pixel of bitmap b at column i, row j (inside b)
Pixel(b, i, j) == b.data[i + j * b.w + 1]

\* C16: for an in-bounds rectangle, crop(x, y, w, h) gives a w-by-h bitmap
\* whose pixel (i, j) is the pixel (x+i, y+j) of the bitmap it was made from.
C16_CropPreservesPixels ==
    (call.op = "crop" /\ lpc = "idle") =>
        /\ bmp.w = call.w
        /\ bmp.h = call.h
        /\ \A i \in 0..(call.w - 1) : \A j \in 0..(call.h - 1) :
              Pixel(bmp, i, j) = Pixel(call.self, call.x + i, call.y + j)

\* the destination pixel (sx, sy) lies under the source of the last blit
InOverlap(sx, sy) ==
    /\ sx - call.x >= 0 /\ sx - call.x < call.other.w
    /\ sy - call.y >= 0 /\ sy - call.y < call.other.h

\* C17: blit keeps the size of the destination and every pixel outside the
\* overlap with the offset source; inside it a transparent blit gives old OR
\* source, so it clears nothing and an all-off source changes nothing, and
\* an opaque blit gives the source pixel.
C17_BlitModes ==
    (call.op = "blit") =>
        /\ bmp.w = call.self.w
        /\ bmp.h = call.self.h
        /\ Len(bmp.data) = Len(call.self.data)
        /\ \A sx \in 0..(bmp.w - 1) : \A sy \in 0..(bmp.h - 1) :
              IF InOverlap(sx, sy)
              THEN IF call.flag
                   THEN Pixel(bmp, sx, sy) = Pixel(call.other, sx - call.x, sy - call.y)
                   ELSE Pixel(bmp, sx, sy) <=>
                           (Pixel(call.self, sx, sy)
                              \/ Pixel(call.other, sx - call.x, sy - call.y))
              ELSE Pixel(bmp, sx, sy) = Pixel(call.self, sx, sy)
        /\ (~call.flag) =>
              \A i \in 1..Len(bmp.data) : call.self.data[i] => bmp.data[i]
        /\ (~call.flag /\ \A i \in 1..Len(call.other.data) : ~call.other.data[i]) =>
              bmp = call.self

\* C17 witness: an opaque blit of an all-off bitmap has cleared a set pixel
\* under the source and kept one beside it
C17_Witness ==
    /\ call.op = "blit"
    /\ call.flag
    /\ call.other = NewBitmap(2, 2, FALSE)
    /\ call.x = 1
    /\ call.self.data = <<TRUE, TRUE, TRUE, TRUE>>
    /\ bmp.data = <<TRUE, FALSE, TRUE, FALSE>>

\* C18: the bit array of a Bitmap has w * h entries, after new and after
\* any sequence of crop, blit and invert.
C18_DataLength ==
    /\ Len(bmp.data) = bmp.w * bmp.h
    /\ DOMAIN bmp.data = 1..(bmp.w * bmp.h)

\* C18 witness: a crop to a smaller non-empty size, made on a bitmap that a
\* blit or an invert had changed
C18_Witness ==
    /\ call.op = "crop"
    /\ lpc = "idle"
    /\ bmp.w * bmp.h > 0
    /\ bmp.w * bmp.h < call.self.w * call.self.h
    /\ \E i, j \in 1..Len(call.self.data) : call.self.data[i] # call.self.data[j]

\* the chunks of the current draw() that create_report has been or is still
\* to be given
Chunks == sent \o drawables

\* the screen columns and rows the bitmap of the current draw() falls on
VisibleCols == {px \in 0..(DeviceWidth - 1) : call.x <= px /\ px < call.x + call.self.w}
VisibleRows == {py \in 0..(DeviceHeight - 1) : call.y <= py /\ py < call.y + call.self.h}

\* the screen pixels chunk d covers, and the bitmap pixels it is made from
ChunkPixels(d) == (d.dst_x..(d.dst_x + d.w - 1)) \X (d.dst_y..(d.dst_y + d.h - 1))

\* C19: for every bitmap and signed offset draw() neither panics nor reads
\* outside the bitmap; its chunks lie on the screen, show bitmap pixel
\* (px - x, py - y) at screen pixel (px, py), and together cover exactly the
\* screen pixels the bitmap falls on, none when it lies off-screen.
C19_DrawClipsToScreen ==
    (call.op = "draw") =>
        /\ lpc # "panic"
        /\ \A k \in 1..Len(Chunks) :
              LET d == Chunks[k]
              IN  /\ d.dst_x >= 0 /\ d.dst_x + d.w <= DeviceWidth
                  /\ d.dst_y >= 0 /\ d.dst_y + d.h <= DeviceHeight
                  /\ d.src_x >= 0 /\ d.src_x + d.w <= call.self.w
                  /\ d.src_y >= 0 /\ d.src_y + d.h <= call.self.h
                  /\ (d.w > 0) => d.dst_x - d.src_x = call.x
                  /\ (d.h > 0) => d.dst_y - d.src_y = call.y
        /\ (lpc = "sending" /\ sent = <<>>) =>
              UNION {ChunkPixels(Chunks[k]) : k \in 1..Len(Chunks)}
                  = VisibleCols \X VisibleRows

RECURSIVE SumW(_)
SumW(ds) == IF ds = <<>> THEN 0 ELSE Head(ds).w + SumW(Tail(ds))

\* the chunks ds lie side by side from the left edge of rectangle c, with
\* its rows
Tiles(ds, c) ==
    \A k \in 1..Len(ds) :
        /\ ds[k].w >= 1
        /\ ds[k].w <= 64
        /\ ds[k].dst_x = c.x + SumW(SubSeq(ds, 1, k - 1))
        /\ ds[k].src_x = c.src_x + SumW(SubSeq(ds, 1, k - 1))
        /\ ds[k].dst_y = c.y
        /\ ds[k].src_y = c.src_y
        /\ ds[k].h = c.h

\* C20: the chunks of a draw() are at most 64 columns wide and lie side by
\* side from the left edge of the clipped rectangle, with its rows, their
\* widths adding up to its width; they are sent one by one from the left;
\* draw() returns Ok when all are sent, and an error at the first send that
\* fails, with no chunk sent after it.
C20_ChunksTileAndAbort ==
    [][(call'.op = "draw" /\ lpc' \in {"sending", "ok", "err"}) =>
          LET c == ClipToScreen(call'.self, call'.x, call'.y)
          IN  /\ Tiles(sent' \o drawables', c)
              /\ (lpc' = "sending") => drawables' # <<>>
              /\ (lpc' = "ok") => drawables' = <<>>
              /\ (lpc' # "err") => SumW(sent' \o drawables') = c.w
              /\ (lpc' = "err") => (drawables' = <<>> /\ SumW(sent') < c.w)
              /\ (lpc = "sending") =>
                    \/ lpc' = "err" /\ sent' = sent
                    \/ lpc' # "err" /\ sent' = Append(sent, Head(drawables))
                                    /\ drawables' = Tail(drawables)
              /\ (lpc \in {"ok", "err"}) => sent' = sent]_vars

\* C20 witness: of two chunks the first was sent and the second failed
C20_Witness ==
    /\ call.op = "draw"
    /\ lpc = "err"
    /\ Len(sent) = 1
    /\ sent[1].w = 64
    /\ call.x = -1
    /\ call.self.w = DeviceWidth + 2

\* the i-th chunk of the draw() call in progress
ChunkOf(i) == PrepareForReport(call.self, call.x, call.y)[i]

\* the pixel of the drawn bitmap that chunk d has at its column x, row y
SourcePixel(d, x, y) == call.self.data[(d.src_y + y) * call.self.w + (d.src_x + x) + 1]

\* bit ri of the data of a report, which starts at byte 6
ReportBit(report, ri) == BitOf(ByteAt(report, (ri \div 8) + 6), ri % 8)

LayoutStride(d) == (((d.dst_y % 8) + d.h + 7) \div 8) * 8

ChunkCells(d) == (0..(d.w - 1)) \X (0..(d.h - 1))

\* C21: every report create_report builds has 1024 bytes, carries 0x06, 0x93,
\* dst_x, dst_y, w, h in bytes 0..5, and holds the source pixel at column x,
\* row y of its chunk at bit ri = x * stride + y of the data that starts at
\* byte 6, stride = ceil((dst_y mod 8 + h) / 8) * 8: no two pixels share a
\* bit, a bit is 1 iff its pixel is on, and every bit no pixel owns is 0.
C21_ReportRoundTrip ==
    \A i \in 1..Len(reports) :
        LET d == ChunkOf(i)
            r == reports[i]
            ri(c) == c[1] * LayoutStride(d) + c[2]
        IN  /\ r.len = SCREEN_REPORT_SIZE
            /\ DOMAIN r.bytes \subseteq 0..(r.len - 1)
            /\ <<ByteAt(r, 0), ByteAt(r, 1), ByteAt(r, 2), ByteAt(r, 3), ByteAt(r, 4),
                 ByteAt(r, 5)>> = <<6, 147, d.dst_x, d.dst_y, d.w, d.h>>
            /\ \A c1, c2 \in ChunkCells(d) : ri(c1) = ri(c2) => c1 = c2
            /\ \A c \in ChunkCells(d) :
                   ReportBit(r, ri(c)) = IF SourcePixel(d, c[1], c[2]) THEN 1 ELSE 0
            /\ \A at \in DOMAIN r.bytes : \A k \in 0..7 :
                   at >= 6 /\ BitOf(r.bytes[at], k) = 1
                   => \E c \in ChunkCells(d) : ri(c) = (at - 6) * 8 + k

\* a chunk of two columns that straddles a row of 8 (stride 16), with pixels
\* on and off, has been encoded and sent
C21_Witness ==
    /\ lpc = "ok"
    /\ \E i \in 1..Len(reports) :
          LET d == ChunkOf(i)
          IN  /\ d.w > 1
              /\ d.dst_y % 8 # 0
              /\ (d.dst_y % 8) + d.h > 8
              /\ \E c1, c2 \in ChunkCells(d) :
                    SourcePixel(d, c1[1], c1[2]) /\ ~SourcePixel(d, c2[1], c2[2])

ValidationErrors == {"brightness too low", "brightness too high"}

\* C22: after set_brightness(value), exactly one report has been handed to
\* the OLED interface, with opcode 0x85 at byte 1 and the value at byte 2,
\* iff 1 <= value <= 10; for any other value the call returned a validation
\* error and no report was handed over, clamped or not.
C22_BrightnessRange ==
    call.op = "set_brightness" =>
        IF 1 <= call.x /\ call.x <= 10
        THEN /\ Len(reports) = 1
             /\ ByteAt(reports[1], 1) = 133
             /\ ByteAt(reports[1], 2) = call.x
             /\ error \notin ValidationErrors
        ELSE /\ reports = <<>>
             /\ lpc = "err"
             /\ error \in ValidationErrors

\* set_brightness(11) has returned its validation error
C22_Witness ==
    /\ call.op = "set_brightness"
    /\ call.x = 11
    /\ lpc = "err"
    /\ error = "brightness too high"
    /\ reports = <<>>

\* byte i of the 64-byte buffer a read of `bytes` leaves
BufByte(bytes, i) == IF i < Len(bytes) THEN bytes[i + 1] ELSE 0

\* the events a list of reads stands for, in order, when a Volume report
\* stands for level(byte 2) and a report that is not one of the three kinds
\* stands for nothing
RECURSIVE EventsOf(_, _)
EventsOf(reads, level) ==
    IF reads = <<>>
    THEN <<>>
    ELSE LET b == Head(reads)
             here == IF BufByte(b, 0) # 7 THEN <<>>
                     ELSE IF BufByte(b, 1) = 37
                     THEN <<[kind |-> "Volume", volume |-> level[BufByte(b, 2)]]>>
                     ELSE IF BufByte(b, 1) = 181
                     THEN <<[kind |-> "HeadsetConnection", connected |-> BufByte(b, 4) = 8]>>
                     ELSE IF BufByte(b, 1) = 183
                     THEN <<[kind |-> "Battery", headset |-> BufByte(b, 2),
                             charging |-> BufByte(b, 3)]>>
                     ELSE <<>>
         IN  here \o EventsOf(Tail(reads), level)

LevelMinus == [b \in 0..255 |-> 56 - b]

LevelSaturating == [b \in 0..255 |-> IF b > 56 THEN 0 ELSE 56 - b]

GetEventsReturned(level) ==
    call.op = "get_events" =>
        /\ hid.fail = "none" => lpc = "ok"
        /\ lpc = "ok" => ret = EventsOf(hid.reads, level)

\* C23 as stated: get_events returns, in order, one event per report whose
\* byte 0 is 7 and byte 1 is 0x25, 0xb5 or 0xb7, with Volume level = 0x38 -
\* byte 2, connected iff byte 4 = 8, headset = byte 2 and charging = byte 3;
\* any other report gives no event and no error.
C23_EventsAsStated == GetEventsReturned(LevelMinus)

\* C23, amended: as stated, with the Volume level 0x38 - byte 2 only while
\* byte 2 <= 0x38 and 0 for any larger byte 2 (the subtraction saturates).
C23_EventsParsed == GetEventsReturned(LevelSaturating)

\* get_events has skipped a report that is no event and has returned the
\* Volume report after it, whose byte 2 is above 0x38, as level 0
C23_Witness ==
    /\ call.op = "get_events"
    /\ lpc = "ok"
    /\ Len(hid.reads) = 2
    /\ BufByte(hid.reads[1], 0) # 7
    /\ BufByte(hid.reads[2], 0) = 7
    /\ BufByte(hid.reads[2], 1) = 37
    /\ BufByte(hid.reads[2], 2) > 56
    /\ ret = <<[kind |-> "Volume", volume |-> 0]>>

\* the positions of the enumerated entries with vendor 0x1038, a product id
\* of the list and interface 4
Matching ==
    {i \in 1..Len(hid.infos) :
        /\ hid.infos[i].vendor_id = 4152
        /\ hid.infos[i].product_id \in {4811, 4813, 4832, 4837}
        /\ hid.infos[i].interface_number = 4}

AllOpened == \A i \in 1..Len(opened) : opened[i].ok

\* C24: connect() returns Ok only if exactly two enumerated entries match;
\* with none it fails with the no-devices error, with one with the too-few
\* error, with three or more with the too-many error, and in these three
\* cases it has made no open_device() call.
C24_ExactlyTwoMatches ==
    call.op = "connect" =>
        /\ lpc = "ok" => Cardinality(Matching) = 2
        /\ Cardinality(Matching) # 2 =>
              /\ lpc = "err"
              /\ opened = <<>>
              /\ error = CASE Cardinality(Matching) = 0 -> "No matching devices connected"
                           [] Cardinality(Matching) = 1 -> "Too few matching devices connected"
                           [] OTHER -> "Too many matching devices connected"

\* connect() has failed on three matching entries without an open_device()
\* call
C24_Witness ==
    /\ call.op = "connect"
    /\ Cardinality(Matching) = 3
    /\ hid.fail = "none"
    /\ lpc = "err"
    /\ error = "Too many matching devices connected"
    /\ opened = <<>>

\* the two matching entries, in the order of the enumeration
FirstMatch == hid.infos[SetMin(Matching)]
SecondMatch == hid.infos[SetMin(Matching \ {SetMin(Matching)})]

\* C25: with two matching entries, no failing HID call and descriptors of two
\* bytes or more: on distinct paths the Device has as OLED interface a handle
\* on the path of the entry whose descriptor byte 1 is 0xc0 and as info
\* interface one on the path of the entry whose byte 1 is 0x00, in either
\* order of the two, and connect() fails if the entries do not show one of
\* each; on one shared path, connect() opens that path twice and the Device
\* has the two handles.
C25_RolesByDescriptor ==
    (/\ call.op = "connect"
     /\ Cardinality(Matching) = 2
     /\ hid.fail = "none"
     /\ Len(FirstMatch.desc) >= 2
     /\ Len(SecondMatch.desc) >= 2)
    => LET a == FirstMatch
           b == SecondMatch
           paths(o, i) ==
               /\ lpc = "ok"
               /\ ret.oled_dev.path = o.path
               /\ ret.info_dev.path = i.path
               /\ ret.oled_dev.fd # ret.info_dev.fd
               /\ opened = <<[path |-> a.path, ok |-> TRUE], [path |-> b.path, ok |-> TRUE]>>
       IN  IF a.path = b.path THEN paths(a, a)
           ELSE IF a.desc[2] = 192 /\ b.desc[2] = 0 THEN paths(a, b)
           ELSE IF a.desc[2] = 0 /\ b.desc[2] = 192 THEN paths(b, a)
           ELSE /\ lpc = "err"
                /\ error \in {"No OLED device found", "No info device found"}

\* connect() has succeeded on two entries of distinct paths of which the
\* second is the OLED interface
C25_Witness ==
    /\ call.op = "connect"
    /\ Cardinality(Matching) = 2
    /\ hid.fail = "none"
    /\ lpc = "ok"
    /\ FirstMatch.path # SecondMatch.path
    /\ FirstMatch.desc = <<6, 0>>
    /\ SecondMatch.desc = <<6, 192>>
    /\ ret.oled_dev.path = SecondMatch.path
    /\ ret.info_dev.path = FirstMatch.path

\* C26: when reconnect() returns in the render thread, either its connect()
\* succeeded and the Device now has the two handles of that connect(), none
\* of them a handle it had, and the engine is connected; or it failed, the
\* error is returned, the Device has the handles and dimensions it had, and
\* the engine is still disconnected. A disconnected engine whose retry
\* period has passed makes the next attempt.
C26_ReconnectReplacesOrKeeps ==
    [][/\ (pc = "reconnecting" /\ pc' = "render") =>
             LET r == Connect(hid'.infos, hid'.fail, {dev.oled_dev.fd, dev.info_dev.fd})
             IN  IF r.ok
                 THEN /\ dev' = r.device
                      /\ {dev'.oled_dev, dev'.info_dev} \cap {dev.oled_dev, dev.info_dev} = {}
                      /\ <<dev'.width, dev'.height>> = <<128, 64>>
                      /\ error' = ""
                      /\ connected'
                 ELSE /\ dev' = dev
                      /\ error' = r.error
                      /\ error' # ""
                      /\ ~connected'
                      /\ connected' = connected
       /\ (/\ pc = "reconnect"
           /\ ~connected
           /\ time - last_connect_attempt >= 1
           /\ pc' # pc) => pc' = "reconnecting" /\ last_connect_attempt' = time
      ]_vars

\* a reconnect() has failed and left the Device as it was, and the engine is
\* at its next attempt
C26_Witness ==
    /\ pc = "reconnecting"
    /\ call.op = "reconnect"
    /\ error = "Too few matching devices connected"
    /\ dev = SmallDevice
    /\ ~connected

\* the render thread makes the composite of a tick
Renders == pc = "render" /\ pc' \in {"draw", "drop"}

\* the frame an Animation layer state is at
FrameAt(st) == st.layer.frames[(st.anim.ticks % Len(st.layer.frames)) + 1]

IsAnimation(st) == st.layer.kind = "Animation" /\ st.layer.frames # <<>>

\* C27: in a rendered tick the composite of a store of one Animation layer
\* with frames is the frame at index ticks mod frame_count at the layer's
\* position; a layer that follows the fps leaves the tick with ticks + 1; one
\* that does not leaves it with ticks + 1 if time >= next_update, and then
\* with next_update grown by the delay of that frame if it has one, and with
\* ticks and next_update as they were otherwise.
C27_AnimationAdvance ==
    [][Renders =>
        \A id \in DOMAIN layers :
            IsAnimation(layers[id]) =>
                LET st == layers[id]
                    after == layers'[id]
                    shown == FrameAt(st)
                IN  /\ DOMAIN layers = {id} =>
                          \A px \in 0..(dev.width - 1) : \A py \in 0..(dev.height - 1) :
                              screen'.data[px + py * dev.width + 1]
                                  <=> PixelOn(shown.bitmap, px - st.layer.x, py - st.layer.y)
                    /\ IF st.layer.follow_fps
                       THEN /\ after.anim.ticks = st.anim.ticks + 1
                            /\ after.anim.next_update = st.anim.next_update
                       ELSE IF time >= st.anim.next_update
                       THEN /\ after.anim.ticks = st.anim.ticks + 1
                            /\ shown.delay.some =>
                                  after.anim.next_update
                                      = st.anim.next_update + shown.delay.val
                       ELSE /\ after.anim.ticks = st.anim.ticks
                            /\ after.anim.next_update = st.anim.next_update]_vars

\* an Animation of two frames that does not follow the fps has shown its
\* first frame, whose delay is 2, and has been rendered again at time 1
\* without advancing
C27_Witness ==
    /\ pc = "drop"
    /\ time = 1
    /\ \E id \in DOMAIN layers :
          /\ IsAnimation(layers[id])
          /\ ~layers[id].layer.follow_fps
          /\ Len(layers[id].layer.frames) = 2
          /\ layers[id].layer.frames[1].delay = Some(2)
          /\ layers[id].anim.ticks = 1
          /\ layers[id].anim.next_update = 2

\* C28: when an Animation that does not follow the fps advances from a frame
\* with delay = None, next_update grows, so that the tick after it at the
\* same time does not advance again.
C28_DefaultDelay ==
    [][Renders =>
        \A id \in DOMAIN layers :
            (/\ IsAnimation(layers[id])
             /\ ~layers[id].layer.follow_fps
             /\ time >= layers[id].anim.next_update
             /\ ~FrameAt(layers[id]).delay.some)
            => layers'[id].anim.next_update > layers[id].anim.next_update]_vars

IsScroll(st) == st.layer.kind = "Scroll"

\* the distance between two copies of a Scroll layer: W + M, M = 30
Period(st) == st.layer.bitmap.w + 30

\* C29: a Scroll layer starts at scroll x = 0; a rendered tick takes x to
\* x - 1, or to 0 from -(W + M) + 1, so that -(W + M) < x <= 0 after it and
\* x is 0 again after W + M rendered ticks and not before; no other step
\* changes x.
C29_ScrollWrap ==
    /\ \A id \in DOMAIN layers : layers[id].scroll.x = 0
    /\ [][\A id \in DOMAIN layers \cap DOMAIN layers' :
            IsScroll(layers[id]) =>
                LET x == layers[id].scroll.x
                    after == layers'[id].scroll.x
                IN  IF Renders
                    THEN /\ -after = (1 - x) % Period(layers[id])
                         /\ after = x - 1 \/ (x = 1 - Period(layers[id]) /\ after = 0)
                         /\ -Period(layers[id]) < after
                         /\ after <= 0
                    ELSE after = x]_vars

\* the tick that takes a Scroll layer back to x = 0 has been rendered
C29_Witness ==
    /\ pc = "draw"
    /\ prev_screen.w = dev.width
    /\ \E id \in DOMAIN layers : IsScroll(layers[id]) /\ layers[id].scroll.x = 0

\* C30: the composite of a rendered tick of a store of one Scroll layer is
\* the bitmap repeated every W + M columns from scroll_x on, on every column
\* of the screen; and it is the composite of the rendered tick before it
\* moved left by one column, whatever scroll_x was, -(W + M) + 1 included.
C30_ScrollTiling ==
    [][Renders =>
        \A id \in DOMAIN layers :
            (IsScroll(layers[id]) /\ DOMAIN layers = {id}) =>
                LET st == layers[id]
                    cols == 0..(dev.width - 1)
                    rows == 0..(dev.height - 1)
                    on(scr, px, py) == scr.data[px + py * dev.width + 1]
                IN  /\ screen'.w = dev.width
                    /\ \A px \in cols : \A py \in rows :
                          on(screen', px, py)
                              <=> PixelOn(st.layer.bitmap, (px - st.scroll.x) % Period(st),
                                          py - st.layer.y)
                    /\ screen.w = dev.width =>
                          \A px \in cols \ {dev.width - 1} : \A py \in rows :
                              on(screen', px, py) <=> on(screen, px + 1, py)]_vars

\* the tick after the wrap has been rendered: the copy that was at column 1
\* in the tick before it, drawn with scroll_x = -(W + M) + 1, is at column 0
C30_Witness ==
    /\ pc = "draw"
    /\ prev_screen.w = dev.width
    /\ \E id \in DOMAIN layers :
          /\ IsScroll(layers[id])
          /\ layers[id].scroll.x = -1
          /\ dev.width > 2 * Period(layers[id])
    /\ prev_screen.data[2]
    /\ screen.data[1]

\* C31: a new DrawDevice starts paused, with no frame remembered: playing
\* becomes true only where the render thread drains a Play command, and
\* until then no tick locks the store, composites or calls draw(), whatever
\* layers the producer has added.
C31_StartsPaused ==
    /\ ~playing
    /\ prev_screen = NewBitmap(0, 0, FALSE)
    /\ [][playing' /\ ~playing =>
            pc = "drain" /\ cmd_queue # <<>> /\ Head(cmd_queue) = CmdPlay]_vars
    /\ [][~playing =>
            /\ ~Composites
            /\ ~DrawCalled
            /\ lock' # "render"
            /\ UNCHANGED <<screen, prev_screen, last_frame_time>>]_vars
    /\ [](pc \in {"draw", "drop"} => playing)

\* C31 witness: two layers are in the store, no play() has been called, and
\* the render thread has passed the render block of a tick without a frame
C31_Witness ==
    /\ ~playing
    /\ ~last_play_sent
    /\ cmd_queue = <<>>
    /\ pc = "events"
    /\ DOMAIN layers = {1, 2}
    /\ screen = NewBitmap(0, 0, FALSE)
    /\ prev_screen = NewBitmap(0, 0, FALSE)

\* C32: when the producer replaces layers between pause() and play(), the
\* render thread never composites the store as it is between the
\* remove_layers and the add of the update (the old layers gone, the new one
\* not there yet).
C32_UpdateNotRendered ==
    [][Composites => ~(ppc = "update_add" /\ pending # <<>>)]_vars

\* the chunks of the composite of this tick
ScreenChunks == PrepareForReport(screen, 0, 0)

\* C33: prev_screen starts as the 0x0 bitmap, which no composite equals, so
\* the first rendered tick calls draw(); it changes only where draw()
\* returns Ok, every chunk of the composite sent, and becomes that composite;
\* a draw() that fails on any chunk leaves it as it was.
C33_PrevScreenIsLastWritten ==
    /\ prev_screen = NewBitmap(0, 0, FALSE)
    /\ [][Composites =>
            /\ screen'.w = dev.width /\ screen'.h = dev.height
            /\ prev_screen = NewBitmap(0, 0, FALSE) => DrawCalled]_vars
    /\ [][prev_screen' # prev_screen =>
            pc = "draw" /\ error' = "" /\ sent' = ScreenChunks /\ prev_screen' = screen]_vars
    /\ [][pc = "draw" /\ pc' # pc =>
            /\ sent' = ScreenChunks => prev_screen' = screen /\ connected'
            /\ sent' # ScreenChunks =>
                  /\ prev_screen' = prev_screen
                  /\ error' = "io"
                  /\ ~connected']_vars

\* C33 witness: a frame was written, the draw of the next, different, frame
\* has failed on its second chunk, and the first frame is still remembered
C33_Witness ==
    /\ pc = "drop"
    /\ Len(sent) = 1
    /\ Len(ScreenChunks) = 2
    /\ error = "io"
    /\ ~connected
    /\ prev_screen.w = dev.width
    /\ prev_screen # screen

ConnectionEvents == {DeviceDisconnected, DeviceReconnected}

\* C34: DeviceDisconnected is published only in a step that takes the engine
\* from connected to disconnected and DeviceReconnected only in one that
\* takes it back, one event per change and none without a change, so the two
\* alternate from the connected start, a tick publishes at most one
\* DeviceDisconnected, and a DeviceEvent is published only while connected;
\* on the event channel a DeviceDisconnected is followed by nothing but a
\* DeviceReconnected.
C34_EventsAlternate ==
    /\ connected = TRUE
    /\ [][Emits(DeviceDisconnected) =>
            connected /\ ~connected' /\ NewEvents = OnlyDisconnected]_vars
    /\ [][Emits(DeviceReconnected) =>
            ~connected /\ connected' /\ NewEvents = OnlyReconnected]_vars
    /\ [][connected' # connected => NewEvents \in {OnlyDisconnected, OnlyReconnected}]_vars
    /\ [][(\E i \in 1..Len(NewEvents) : NewEvents[i] \notin ConnectionEvents) =>
            connected /\ connected']_vars
    /\ [](\A i \in 1..(Len(event_queue) - 1) :
            /\ event_queue[i] = DeviceDisconnected => event_queue[i + 1] = DeviceReconnected
            /\ event_queue[i] = DeviceReconnected => event_queue[i + 1] # DeviceReconnected)
    /\ []((event_queue # <<>> /\ event_queue[Len(event_queue)] = DeviceDisconnected)
             => ~connected)

\* C34 witness: the second disconnect, by a draw that failed in a tick whose
\* poll is then skipped; the first DeviceDisconnected has been consumed
C34_Witness ==
    /\ event_queue = <<DeviceReconnected, DeviceDisconnected>>
    /\ ~connected
    /\ playing
    /\ last_frame_time = now
    /\ pc = "stop"

\* the render thread's get_events() call returns
PollReturns == pc = "polling" /\ pc' = "stop"

\* C35: a get_events() call in which a read fails returns the error and
\* none of the events its earlier reads decoded; the engine publishes
\* DeviceDisconnected and nothing else, in that step and in the rest of the
\* tick. A call whose reads all succeed hands on every decoded event.
C35_FailedPollDropsEvents ==
    /\ [][(PollReturns /\ hid'.fail = "read") =>
            /\ ret' = Unit
            /\ error' = "io"
            /\ events' = <<>>
            /\ ~connected'
            /\ NewEvents = OnlyDisconnected]_vars
    /\ [][(PollReturns /\ hid'.fail = "none") =>
            /\ ret' = ParseAll(hid'.reads)
            /\ connected'
            /\ NewEvents = [i \in 1..Len(ret') |-> DeviceEventOf(ret'[i])]]_vars
    /\ [][pc = "stop" => NewEvents = NoEvents]_vars

\* C35 witness: two reads decoded a Volume and a Battery event, the third
\* failed; the channel holds DeviceDisconnected alone
C35_Witness ==
    /\ pc = "stop"
    /\ hid.fail = "read"
    /\ Len(ParseAll(hid.reads)) = 2
    /\ ParseAll(hid.reads)[1].kind = "Volume"
    /\ ParseAll(hid.reads)[2].kind = "Battery"
    /\ event_queue = <<DeviceDisconnected>>
    /\ ~connected

\* the layers that are in the store before and after a step
Kept == DOMAIN layers \cap DOMAIN layers'

\* C36: the state of a layer that stays in the store (its layer, animation
\* ticks and next_update, scroll x) and the shift index change only in a
\* step of the render thread that composites, in a connected and playing
\* tick; the render block of a paused or disconnected tick and every
\* producer call leave them as they are.
C36_RenderStateOnlyInComposite ==
    /\ [][(oled_shift' # oled_shift \/ last_shift' # last_shift
             \/ \E id \in Kept : layers'[id] # layers[id]) =>
            Composites /\ connected /\ playing /\ UNCHANGED producerVars]_vars
    /\ [][(pc = "render" /\ pc' # pc /\ ~(connected /\ playing)) =>
            pc' = "events" /\ UNCHANGED <<layers, oled_shift, last_shift>>]_vars
    /\ [][ppc' # ppc \/ layer_counter' # layer_counter \/ DOMAIN layers' # DOMAIN layers =>
            /\ UNCHANGED <<oled_shift, last_shift>>
            /\ \A id \in Kept : layers'[id] = layers[id]]_vars

\* C36 witness: a disconnected tick of a playing engine has passed its
\* render block with a shift due; the layer on show has advanced before and
\* the shift index has moved once
C36_Witness ==
    /\ pc = "events"
    /\ ~connected
    /\ playing
    /\ time - last_shift >= OLED_SHIFT_PERIOD
    /\ oled_shift = 1
    /\ \E id \in DOMAIN layers : layers[id].anim.ticks > 0 \/ layers[id].scroll.x < 0

\* the ids the caller holds that name no layer of the store
Stale == HeldIds \ DOMAIN layers

\* C37: remove_layer, and each turn of remove_layers, on an id that is not
\* in the store leaves the store as it is; on any id it leaves every other
\* layer in place; and an id that is not in the store (LayerId::none(), or
\* one that was removed or cleared) never names a layer again, so a layer
\* added later is out of its reach.
C37_AbsentIdsRemoveNothing ==
    /\ [][\A id \in HeldIds :
            RemoveLayer(id) =>
                /\ id \in Stale => layers' = layers
                /\ \A k \in DOMAIN layers \ {id} :
                      k \in DOMAIN layers' /\ layers'[k] = layers[k]]_vars
    /\ [][RemoveLayersStep =>
            /\ Head(pending) \in Stale => layers' = layers
            /\ \A k \in DOMAIN layers \ {Head(pending)} :
                  k \in DOMAIN layers' /\ layers'[k] = layers[k]]_vars
    /\ [][\A id \in Stale : id \notin DOMAIN layers']_vars
    /\ [](LayerIdNone \notin DOMAIN layers)

\* C37 witness: layer 1 is gone, layer 2 was added after it, and
\* remove_layers has come to the id 1 in its list
C37_Witness ==
    /\ ppc = "remove_layers"
    /\ pending = <<1>>
    /\ issued = {1, 2}
    /\ DOMAIN layers = {2}

\* C38: a successful reconnect leaves prev_screen and the time of the last
\* draw() call as they were and goes on to the render block of its tick;
\* every connected and playing tick composites, and calls draw() with the
\* composite if it differs from prev_screen or if a second or more has
\* passed since the last draw() call, so the first such tick after the
\* reconnect writes the frame, also one equal to the last frame sent.
C38_RedrawAfterReconnect ==
    /\ [][Reconnect(TRUE) =>
            pc' = "render" /\ UNCHANGED <<prev_screen, last_frame_time, playing>>]_vars
    /\ [][(pc = "render" /\ pc' # pc /\ connected /\ playing) => Composites]_vars
    /\ [][(Composites /\ (screen' # prev_screen
                          \/ now - last_frame_time >= FORCE_REDRAW_PERIOD)) =>
            DrawCalled /\ last_frame_time' = now]_vars
    /\ [][last_frame_time' # last_frame_time => DrawCalled]_vars
    /\ [][(pc = "draw" /\ pc' # pc) =>
            call'.op = "draw" /\ call'.self = screen /\ reports' # <<>>]_vars

\* C38 witness: a write failed, the device came back in a later tick in which
\* the frame, equal to the last one sent, was not due; a second after the
\* failed write the heartbeat sends it
C38_Witness ==
    /\ pc = "draw"
    /\ screen = prev_screen
    /\ event_queue = <<DeviceDisconnected, DeviceReconnected>>
    /\ connected
    /\ last_frame_time = now
    /\ last_connect_attempt < now
    /\ last_connect_attempt >= RECONNECT_PERIOD

\* a step that sends Stop on the command channel
SendsStop ==
    /\ Len(cmd_queue') = Len(cmd_queue) + 1
    /\ cmd_queue'[Len(cmd_queue')] = CmdStop

\* the producer's thread.join() returns
JoinReturns ==
    \/ ppc = "stop_join" /\ ppc' = "stop_drop"
    \/ ppc = "drop_join" /\ ppc' = "dropped"

\* C39: Stop is sent only by the destroy that takes the thread handle, which
\* is there to be taken once; each of stop() and drop joins once, right
\* after its Stop; the drop at the end of stop() finds no handle, sends
\* nothing and joins nothing.
C39_StopOnce ==
    /\ thread = TRUE
    /\ [][SendsStop =>
            /\ thread /\ ~thread'
            /\ ppc = "idle" /\ ppc' \in {"stop_join", "drop_join"}]_vars
    /\ [][thread' # thread => SendsStop]_vars
    /\ [][~thread => ~thread' /\ ~SendsStop]_vars
    /\ [][(ppc \in {"stop_join", "drop_join"} /\ ppc' # ppc) =>
            JoinReturns /\ pc = "exited"]_vars
    /\ [][(ppc = "stop_drop" /\ ppc' # ppc) =>
            ppc' = "stopped" /\ UNCHANGED <<cmd_queue, thread>>]_vars
    /\ [][(ppc \in {"stopped", "dropped"}) => ppc' = ppc]_vars
    /\ [](Cardinality({i \in DOMAIN cmd_queue : cmd_queue[i] = CmdStop}) <= 1)

\* C39 witness: stop() has returned from a playing, connected engine: one
\* Stop was sent and drained, the thread was joined, the drop of self is over
C39_Witness ==
    /\ ppc = "stopped"
    /\ ~thread
    /\ pc = "exited"
    /\ cmd_queue = <<>>
    /\ playing
    /\ connected

\* the last bit create_report writes for chunk d, and its byte
LastBit(d) == (d.w - 1) * StrideH(d) + (d.h - 1)
LastByte(d) == 6 + LastBit(d) \div 8

\* C40: every chunk draw() makes is at most SCREEN_REPORT_SPLIT_SZ columns
\* wide and ends on or above the last row of the screen; the bytes
\* create_report writes for it, up to 6 + ri / 8 of its last pixel, lie
\* inside the report, and dst x, dst y, width and height are below 256, the
\* header bytes of every report built holding them as they are.
C40_ReportFits ==
    (call.op = "draw") =>
        /\ \A k \in 1..Len(drawables) :
              LET d == drawables[k]
              IN  /\ d.w >= 1 /\ d.w <= SCREEN_REPORT_SPLIT_SZ
                  /\ d.dst_y + d.h <= DeviceHeight
                  /\ d.h >= 1 => LastByte(d) < SCREEN_REPORT_SIZE
                  /\ \A v \in {d.dst_x, d.dst_y, d.w, d.h} : AsU8(v) = v
        /\ \A k \in 1..Len(reports) :
              LET d == PrepareForReport(call.self, call.x, call.y)[k]
              IN  /\ DOMAIN reports[k].bytes \subseteq 0..(SCREEN_REPORT_SIZE - 1)
                  /\ reports[k].len = SCREEN_REPORT_SIZE
                  /\ ByteAt(reports[k], 2) = d.dst_x
                  /\ ByteAt(reports[k], 3) = d.dst_y
                  /\ ByteAt(reports[k], 4) = d.w
                  /\ ByteAt(reports[k], 5) = d.h

\* C40 witness: the two reports of the full screen drawn at the origin, each
\* 64 columns of 64 rows, the last pixel in bit 7 of byte 517
C40_Witness ==
    /\ call.op = "draw"
    /\ call.self = FullScreen
    /\ lpc = "ok"
    /\ Len(reports) = 2
    /\ ByteAt(reports[2], 2) = SCREEN_REPORT_SPLIT_SZ
    /\ ByteAt(reports[2], 4) = SCREEN_REPORT_SPLIT_SZ
    /\ ByteAt(reports[2], 5) = DeviceHeight
    /\ ByteAt(reports[2], 517) >= 128
    /\ 518 \notin DOMAIN reports[2].bytes
====
